---------------------------- MODULE Spec2Model ----------------------------
(***************************************************************************)
(* A model of the object-deep-compare engine (src/src/main.ts): the        *)
(* equality primitive, the path matcher and filter policy, the recursive   *)
(* traversal with its visited ledgers, and the three public adapters.      *)
(*                                                                         *)
(* JavaScript strings are sequences of one-character strings, so that the  *)
(* string operations of the source (startsWith, includes, split, replace,  *)
(* RegExp) are computed, not assumed.  JavaScript values are records       *)
(* [t, n, s]; containers live in a heap indexed by node identity, so that  *)
(* reference identity (===, Map keys) and cycles are explicit.             *)
(***************************************************************************)
EXTENDS Integers, Sequences, FiniteSets, TLC

VARIABLES heap, argFirst, argSecond, argPath, argOptions, argSchema, cache,
          calls, fnCalls, pc, result

vars == <<heap, argFirst, argSecond, argPath, argOptions, argSchema, cache,
          calls, fnCalls, pc, result>>

-----------------------------------------------------------------------------
(* Strings *)

EmptyStr == <<>>

Digits == {"0", "1", "2", "3", "4", "5", "6", "7", "8", "9"}

DigitChar(d) ==
  CASE d = 0 -> "0" [] d = 1 -> "1" [] d = 2 -> "2" [] d = 3 -> "3"
    [] d = 4 -> "4" [] d = 5 -> "5" [] d = 6 -> "6" [] d = 7 -> "7"
    [] d = 8 -> "8" [] OTHER -> "9"

DigitVal(c) ==
  CASE c = "0" -> 0 [] c = "1" -> 1 [] c = "2" -> 2 [] c = "3" -> 3
    [] c = "4" -> 4 [] c = "5" -> 5 [] c = "6" -> 6 [] c = "7" -> 7
    [] c = "8" -> 8 [] OTHER -> 9

\* String(i) for a non-negative integer i, as the template literal `${i}` does.
RECURSIVE NatToStr(_)
NatToStr(i) ==
  IF i < 10 THEN <<DigitChar(i)>>
  ELSE NatToStr(i \div 10) \o <<DigitChar(i % 10)>>

\* s.substring(from) with a 0-based index, as JavaScript counts.
SubstringFrom(s, from) ==
  IF from >= Len(s) THEN EmptyStr ELSE SubSeq(s, from + 1, Len(s))

\* s.substring(0, to) with a 0-based exclusive end.
SubstringTo(s, to) ==
  IF to <= 0 THEN EmptyStr ELSE SubSeq(s, 1, IF to > Len(s) THEN Len(s) ELSE to)

\* Whether p occurs in s at the 0-based position i.
OccursAt(s, p, i) ==
  /\ i >= 0
  /\ i + Len(p) <= Len(s)
  /\ \A k \in 1..Len(p) : s[i + k] = p[k]

StartsWith(s, p) == OccursAt(s, p, 0)

EndsWith(s, p) == OccursAt(s, p, Len(s) - Len(p))

Includes(s, p) == \E i \in 0..Len(s) : OccursAt(s, p, i)

\* s.indexOf(c): the 0-based position of the first occurrence, or -1.
IndexOf(s, c) ==
  IF \E i \in 1..Len(s) : s[i] = c
  THEN (CHOOSE i \in 1..Len(s) : s[i] = c /\ \A j \in 1..(i - 1) : s[j] # c) - 1
  ELSE -1

\* s.replace(/x/g, to) for a literal string x: left to right, non-overlapping.
RECURSIVE ReplaceAll(_, _, _)
ReplaceAll(s, from, to) ==
  IF Len(s) = 0 THEN EmptyStr
  ELSE IF OccursAt(s, from, 0)
       THEN to \o ReplaceAll(SubstringFrom(s, Len(from)), from, to)
       ELSE <<s[1]>> \o ReplaceAll(SubstringFrom(s, 1), from, to)

\* s.split('.'): the pieces between the dots; never empty as a list.
RECURSIVE SplitDot(_)
SplitDot(s) ==
  LET i == IndexOf(s, ".")
  IN IF i = -1 THEN <<s>>
     ELSE <<SubstringTo(s, i)>> \o SplitDot(SubstringFrom(s, i + 1))

\* The number of leading digits of s.
RECURSIVE DigitRun(_)
DigitRun(s) ==
  IF Len(s) > 0 /\ s[1] \in Digits THEN 1 + DigitRun(SubstringFrom(s, 1)) ELSE 0

\* The length of a match of /^\[\d+\]/ at the start of s, or 0 when none.
IndexPrefixLen(s) ==
  IF Len(s) > 0 /\ s[1] = "["
  THEN LET d == DigitRun(SubstringFrom(s, 1))
       IN IF d > 0 /\ Len(s) >= d + 2 /\ s[d + 2] = "]" THEN d + 2 ELSE 0
  ELSE 0

\* path.replace(/\[\d+\]/g, '[*]')
RECURSIVE WildcardIndices(_)
WildcardIndices(s) ==
  IF Len(s) = 0 THEN EmptyStr
  ELSE LET n == IndexPrefixLen(s)
       IN IF n > 0
          THEN <<"[", "*", "]">> \o WildcardIndices(SubstringFrom(s, n))
          ELSE <<s[1]>> \o WildcardIndices(SubstringFrom(s, 1))

-----------------------------------------------------------------------------
(* Regular expressions: the subset of RegExp syntax that the source builds  *)
(* from filter patterns.  A compiled expression is a list of items, each a   *)
(* character set (possibly negated) with a quantifier.                       *)

Backslash == "\\"

RegexItem(set, neg, q) == [set |-> set, neg |-> neg, q |-> q]

InvalidRegex == [ok |-> FALSE, items |-> <<>>]

\* The body of a character class, from the 1-based position i (after "[" and
\* "^") up to the closing "]": [ok, set, next].
RECURSIVE ParseClass(_, _, _)
ParseClass(src, i, acc) ==
  IF i > Len(src) THEN [ok |-> FALSE, set |-> acc, next |-> i]
  ELSE IF src[i] = "]" THEN [ok |-> TRUE, set |-> acc, next |-> i + 1]
  ELSE IF src[i] = Backslash
       THEN IF i + 1 > Len(src) THEN [ok |-> FALSE, set |-> acc, next |-> i]
            ELSE ParseClass(src, i + 2,
                            acc \cup (IF src[i + 1] = "d" THEN Digits ELSE {src[i + 1]}))
       ELSE ParseClass(src, i + 1, acc \cup {src[i]})

\* Whether the class that opens at position i is negated.
ClassNegated(src, i) == i + 1 <= Len(src) /\ src[i + 1] = "^"

ClassAtom(cls, neg) == [ok |-> cls.ok, set |-> cls.set, neg |-> neg, next |-> cls.next]

\* One atom at the 1-based position i: [ok, set, neg, next].
ParseAtom(src, i) ==
  IF src[i] = Backslash
  THEN IF i + 1 > Len(src)
       THEN [ok |-> FALSE, set |-> {}, neg |-> FALSE, next |-> i]
       ELSE [ok |-> TRUE,
             set |-> IF src[i + 1] = "d" THEN Digits ELSE {src[i + 1]},
             neg |-> FALSE, next |-> i + 2]
  ELSE IF src[i] = "["
  THEN ClassAtom(ParseClass(src, IF ClassNegated(src, i) THEN i + 2 ELSE i + 1, {}),
                 ClassNegated(src, i))
  ELSE IF src[i] = "." THEN [ok |-> TRUE, set |-> {}, neg |-> TRUE, next |-> i + 1]
  ELSE IF src[i] \in {"*", "+"}
  THEN [ok |-> FALSE, set |-> {}, neg |-> FALSE, next |-> i]
  ELSE [ok |-> TRUE, set |-> {src[i]}, neg |-> FALSE, next |-> i + 1]

\* The items of src from the 1-based position i on; ItemsAfter continues
\* behind the atom a, taking the quantifier that may follow it.
RECURSIVE ParseItems(_, _, _)
RECURSIVE ItemsAfter(_, _, _)
ItemsAfter(src, acc, a) ==
  IF ~a.ok THEN InvalidRegex
  ELSE LET quantified == a.next <= Len(src) /\ src[a.next] \in {"*", "+"}
       IN ParseItems(src, IF quantified THEN a.next + 1 ELSE a.next,
                     Append(acc, RegexItem(a.set, a.neg,
                                           IF quantified THEN src[a.next] ELSE "1")))

ParseItems(src, i, acc) ==
  IF i > Len(src) THEN [ok |-> TRUE, items |-> acc]
  ELSE ItemsAfter(src, acc, ParseAtom(src, i))

AnchoredAtStart(src) == Len(src) > 0 /\ src[1] = "^"

AnchoredAtEnd(src) == Len(src) > 0 /\ src[Len(src)] = "$"

\* src without its anchors.
Unanchored(src) ==
  SubSeq(src, IF AnchoredAtStart(src) THEN 2 ELSE 1,
         IF AnchoredAtEnd(src) THEN Len(src) - 1 ELSE Len(src))

Compiled(parsed, atStart, atEnd) ==
  [ok |-> parsed.ok, items |-> parsed.items, atStart |-> atStart, atEnd |-> atEnd]

\* new RegExp(src): [ok, items, atStart, atEnd]; ok is FALSE where the
\* constructor throws a SyntaxError.
CompileRegex(src) ==
  Compiled(ParseItems(Unanchored(src), 1, <<>>), AnchoredAtStart(src),
           AnchoredAtEnd(src))

ItemAccepts(it, c) == (c \in it.set) # it.neg

\* How many characters of s, from the 1-based position j, the item accepts.
RECURSIVE RunLength(_, _, _)
RunLength(it, s, j) ==
  IF j <= Len(s) /\ ItemAccepts(it, s[j]) THEN 1 + RunLength(it, s, j + 1) ELSE 0

\* The positions at which a match of items[k..] that starts at j can end.
RECURSIVE MatchEnds(_, _, _, _)
MatchEnds(items, k, s, j) ==
  IF k > Len(items) THEN {j}
  ELSE IF items[k].q = "1"
       THEN IF j <= Len(s) /\ ItemAccepts(items[k], s[j]) THEN {j + 1} ELSE {}
       ELSE {j + n : n \in (IF items[k].q = "+" THEN 1 ELSE 0)..RunLength(items[k], s, j)}

\* The positions at which a match of the whole list that starts at j can end.
RECURSIVE MatchAll(_, _, _, _)
MatchAll(items, k, s, starts) ==
  IF k > Len(items) \/ starts = {} THEN starts
  ELSE MatchAll(items, k + 1, s, UNION {MatchEnds(items, k, s, j) : j \in starts})

\* Whether the compiled expression r matches in s.
RegexMatches(r, s) ==
  /\ r.ok
  /\ \E e \in MatchAll(r.items, 1, s, IF r.atStart THEN {1} ELSE 1..(Len(s) + 1)) :
       r.atEnd => e = Len(s) + 1

\* regex.test(s), and a SyntaxError of the constructor counts as no match
\* (main.ts 192-199, 211-218 and 377-384 wrap the construction in try/catch;
\* the leading-dot expressions of lines 176-177 are built from patterns that
\* keep them valid).
RegexTest(src, s) == RegexMatches(CompileRegex(src), s)

-----------------------------------------------------------------------------
(* Path Matcher and Path Filter Policy *)

\* A pathFilter option: on is FALSE when the option is absent; mode is
\* "unset" when the filter gives no mode.
NoFilter == [on |-> FALSE, patterns |-> <<>>, mode |-> "unset"]

Filter(patterns, mode) == [on |-> TRUE, patterns |-> patterns, mode |-> mode]

\* patterns.includes(p)
PatternsInclude(patterns, p) == \E k \in 1..Len(patterns) : patterns[k] = p

\* The source of the expression built for a pattern that holds "[*]".
ArrayPatternRegex(pattern) ==
  <<"^">>
  \o ReplaceAll(ReplaceAll(pattern, <<"[", "*", "]">>,
                           <<Backslash, "[", Backslash, "d", "+", Backslash, "]">>),
                <<".">>, <<Backslash, ".">>)
  \o <<"$">>

\* The source of the expression built for a pattern that holds "*", without
\* its anchors.
WildcardRegexBody(pattern) ==
  ReplaceAll(
    ReplaceAll(
      ReplaceAll(
        ReplaceAll(pattern, <<".">>, <<Backslash, ".">>),
        <<"[">>, <<Backslash, "[">>),
      <<"]">>, <<Backslash, "]">>),
    <<"*">>, <<"[", "^", ".", Backslash, "[", Backslash, "]", "]", "*">>)

\* The expressions one turn of the loop of matchesPathPattern tests the path
\* against: two for a leading-dot pattern, otherwise one for a pattern that
\* holds "[*]" and one for a pattern that holds "*".
PatternRegexes(pattern) ==
  IF StartsWith(pattern, <<".">>)
  THEN {<<Backslash, "[", Backslash, "d", "+", Backslash, "]", Backslash, ".">>
          \o SubstringFrom(pattern, 1),
        <<Backslash, ".">> \o SubstringFrom(pattern, 1) \o <<Backslash, "[">>}
  ELSE (IF Includes(pattern, <<"[", "*", "]">>) THEN {ArrayPatternRegex(pattern)} ELSE {})
       \cup
       (IF Includes(pattern, <<"*">>)
        THEN {<<"^">> \o WildcardRegexBody(pattern) \o <<"$">>} ELSE {})

\* One turn of the loop of matchesPathPattern: whether this pattern makes
\* the function return true.
PatternMatches(path, pattern) ==
  \/ IF StartsWith(pattern, <<".">>)
     THEN \/ path = SubstringFrom(pattern, 1)
          \/ EndsWith(path, pattern)
          \/ Includes(path, SubstringFrom(pattern, 1) \o <<".">>)
     ELSE \/ pattern = path
          \/ StartsWith(path, pattern \o <<"[">>)
          \/ StartsWith(path, pattern \o <<".">>)
  \/ \E src \in PatternRegexes(pattern) : RegexTest(src, path)

matchesPathPattern(path, patterns) ==
  \E k \in 1..Len(patterns) : PatternMatches(path, patterns[k])

\* part.match(/^([^\[]+)(\[\d+\])(.*)$/): the first bracket of the part is
\* not its first character, and an array index stands at it.
ArrayMatches(part) ==
  /\ IndexOf(part, "[") >= 1
  /\ IndexPrefixLen(SubstringFrom(part, IndexOf(part, "["))) > 0

\* The paths the loop of shouldFilterPath probes, from part k on: at each
\* part the path so far with the part, cut before the bracket of a part that
\* has an array index (the bracket and what follows it are appended after
\* the probe).
RECURSIVE PartProbes(_, _, _)
PartProbes(parts, k, currentPath) ==
  IF k > Len(parts) THEN {}
  ELSE LET sep == IF currentPath # EmptyStr THEN currentPath \o <<".">> ELSE currentPath
       IN {sep \o (IF ArrayMatches(parts[k])
                   THEN SubstringTo(parts[k], IndexOf(parts[k], "["))
                   ELSE parts[k])}
          \cup PartProbes(parts, k + 1, sep \o parts[k])

\* It returns true as soon as the path itself or one of the probed parent
\* paths matches.
shouldFilterPath(path, pathFilter) ==
  IF ~pathFilter.on \/ Len(pathFilter.patterns) = 0 THEN FALSE
  ELSE \E probe \in {path} \cup PartProbes(SplitDot(path), 1, EmptyStr) :
         matchesPathPattern(probe, pathFilter.patterns)

\* Include mode, "array element direct match": a pattern "[*]suffix" against
\* a path "[n]suffix".
ArrayElementDirectMatch(path, patterns) ==
  \E k \in 1..Len(patterns) :
    /\ StartsWith(patterns[k], <<"[", "*", "]">>)
    /\ IndexPrefixLen(path) > 0
    /\ SubstringFrom(patterns[k], 3) = SubstringFrom(path, IndexPrefixLen(path))

\* The values currentPath takes in the last loop of shouldComparePath: the
\* path cut at each of its dots, and the path itself.
PathPrefixes(path) ==
  {SubstringTo(path, i) : i \in {j \in 0..Len(path) : j = Len(path) \/ path[j + 1] = "."}}

\* Include mode, the last loop: a pattern "prefix.*" for a prefix of the
\* path, or a pattern with "*" and without a leading dot whose expression,
\* anchored at the start only, matches the whole path (the loop runs at
\* least once, and this test does not depend on the turn).
IncludeParents(path, patterns) ==
  \/ \E prefix \in PathPrefixes(path) : PatternsInclude(patterns, prefix \o <<".", "*">>)
  \/ \E k \in 1..Len(patterns) :
       /\ Includes(patterns[k], <<"*">>)
       /\ ~StartsWith(patterns[k], <<".">>)
       /\ RegexTest(<<"^">> \o WildcardRegexBody(patterns[k]), path)

\* shouldComparePath behind its first return, given what shouldFilterPath
\* answers for the path.
ComparePathGiven(path, pathFilter, filtered) ==
  IF pathFilter.mode \in {"exclude", "unset"} THEN ~filtered
  ELSE \/ PatternsInclude(pathFilter.patterns, path)
       \/ filtered
       \/ /\ Includes(path, <<"[">>)
          /\ \/ PatternsInclude(pathFilter.patterns, WildcardIndices(path))
             \/ ArrayElementDirectMatch(path, pathFilter.patterns)
       \/ IncludeParents(path, pathFilter.patterns)

shouldComparePath(path, pathFilter) ==
  IF ~pathFilter.on \/ Len(pathFilter.patterns) = 0 THEN TRUE
  ELSE ComparePathGiven(path, pathFilter, shouldFilterPath(path, pathFilter))

-----------------------------------------------------------------------------
(* JavaScript values and the heap *)

Undefined == [t |-> "undefined", n |-> 0, s |-> EmptyStr]
Null == [t |-> "null", n |-> 0, s |-> EmptyStr]
NaN == [t |-> "nan", n |-> 0, s |-> EmptyStr]
Bool(b) == [t |-> "boolean", n |-> IF b THEN 1 ELSE 0, s |-> EmptyStr]
Num(n) == [t |-> "number", n |-> n, s |-> EmptyStr]
Str(s) == [t |-> "string", n |-> 0, s |-> s]
\* A reference to the heap node id: an array, a plain object, a Date or a RegExp.
Ref(id) == [t |-> "ref", n |-> id, s |-> EmptyStr]

ArrNode(vals) == [kind |-> "arr", keys |-> <<>>, vals |-> vals, n |-> 0, s |-> EmptyStr]
ObjNode(keys, vals) == [kind |-> "obj", keys |-> keys, vals |-> vals, n |-> 0, s |-> EmptyStr]
\* new Date(time); getTime() is n.
DateNode(time) == [kind |-> "date", keys |-> <<>>, vals |-> <<>>, n |-> time, s |-> EmptyStr]
\* A RegExp; toString() is s.
RegExpNode(src) == [kind |-> "regexp", keys |-> <<>>, vals |-> <<>>, n |-> 0, s |-> src]

IsRef(v) == v.t = "ref"

\* typeof v
TypeOf(v) ==
  CASE v.t = "undefined" -> "undefined"
    [] v.t = "boolean" -> "boolean"
    [] v.t \in {"number", "nan"} -> "number"
    [] v.t = "string" -> "string"
    [] OTHER -> "object"

IsArray(h, v) == IsRef(v) /\ h[v.n].kind = "arr"

IsDate(h, v) == IsRef(v) /\ h[v.n].kind = "date"

IsRegExp(h, v) == IsRef(v) /\ h[v.n].kind = "regexp"

isObject(h, v) == TypeOf(v) = "object" /\ v # Null /\ ~IsArray(h, v)

\* a === b
StrictEquals(a, b) == a.t # "nan" /\ a = b

\* Object.is(a, b); the model has no negative zero.
ObjectIs(a, b) == a = b

\* Boolean(v)
ToBoolean(v) ==
  CASE v.t \in {"undefined", "null", "nan"} -> FALSE
    [] v.t = "boolean" -> v.n = 1
    [] v.t = "number" -> v.n # 0
    [] v.t = "string" -> v.s # EmptyStr
    [] OTHER -> TRUE

\* The value of a string of decimal digits.
RECURSIVE DigitsValue(_, _)
DigitsValue(s, acc) ==
  IF Len(s) = 0 THEN acc
  ELSE DigitsValue(SubstringFrom(s, 1), acc * 10 + DigitVal(s[1]))

\* Number(v) for a string or a number: the empty string is 0, a string of
\* decimal digits is its value, any other string of the model is NaN.
ToNumber(v) ==
  IF v.t = "string"
  THEN IF \A k \in 1..Len(v.s) : v.s[k] \in Digits
       THEN Num(DigitsValue(v.s, 0))
       ELSE NaN
  ELSE v

\* The index keys "0", "1", ... of an array of length n.
IndexKeys(n) == [i \in 1..n |-> NatToStr(i - 1)]

LengthKey == <<"l", "e", "n", "g", "t", "h">>

\* Object.keys(v) of a container: the keys of a plain object, the indices of
\* an array; a Date and a RegExp have none.
ObjectKeys(h, v) ==
  IF h[v.n].kind = "arr" THEN IndexKeys(Len(h[v.n].vals)) ELSE h[v.n].keys

\* Object.prototype.hasOwnProperty.call(v, key) of a container.
hasOwn(h, v, key) ==
  \/ \E k \in 1..Len(ObjectKeys(h, v)) : ObjectKeys(h, v)[k] = key
  \/ h[v.n].kind = "arr" /\ key = LengthKey

\* v[key] of a container that has the key.
GetProp(h, v, key) ==
  IF h[v.n].kind = "arr" /\ key = LengthKey THEN Num(Len(h[v.n].vals))
  ELSE h[v.n].vals[CHOOSE k \in 1..Len(ObjectKeys(h, v)) : ObjectKeys(h, v)[k] = key]

\* arr.length and arr[i] (0-based, in range).
ArrLength(h, v) == Len(h[v.n].vals)

ArrGet(h, v, i) == h[v.n].vals[i + 1]

-----------------------------------------------------------------------------
(* Equality Primitive *)

\* A variant that tells null and undefined alike in one order of the
\* operands only.
areValuesEqualOneWay(h, a, b, strict) ==
  IF StrictEquals(a, b) THEN TRUE
  ELSE IF strict THEN FALSE
  ELSE IF a.t = "nan" /\ b.t = "nan" THEN TRUE
  ELSE IF a = Null /\ b = Undefined THEN TRUE
  ELSE IF /\ \/ TypeOf(a) = "string" /\ TypeOf(b) = "number"
             \/ TypeOf(a) = "number" /\ TypeOf(b) = "string"
          /\ ToNumber(a).t # "nan"
          /\ ToNumber(b).t # "nan"
          /\ ToNumber(a) = ToNumber(b)
       THEN TRUE
  ELSE IF /\ TypeOf(a) = "boolean" \/ TypeOf(b) = "boolean"
          /\ ToBoolean(a) = ToBoolean(b)
       THEN TRUE
  ELSE IF ~ToBoolean(a) \/ ~ToBoolean(b) THEN FALSE
  ELSE IF IsDate(h, a) /\ IsDate(h, b) THEN h[a.n].n = h[b.n].n
  ELSE IF IsRegExp(h, a) /\ IsRegExp(h, b) THEN h[a.n].s = h[b.n].s
  ELSE FALSE

\* A variant that takes the identity shortcut in strict mode only.
areValuesEqualNoShortcut(h, a, b, strict) ==
  IF strict THEN StrictEquals(a, b)
  ELSE IF a.t = "nan" /\ b.t = "nan" THEN TRUE
  ELSE IF (a = Null /\ b = Undefined) \/ (a = Undefined /\ b = Null) THEN TRUE
  ELSE IF /\ \/ TypeOf(a) = "string" /\ TypeOf(b) = "number"
             \/ TypeOf(a) = "number" /\ TypeOf(b) = "string"
          /\ ToNumber(a).t # "nan"
          /\ ToNumber(b).t # "nan"
          /\ ToNumber(a) = ToNumber(b)
       THEN TRUE
  ELSE IF /\ TypeOf(a) = "boolean" \/ TypeOf(b) = "boolean"
          /\ ToBoolean(a) = ToBoolean(b)
       THEN TRUE
  ELSE IF ~ToBoolean(a) \/ ~ToBoolean(b) THEN FALSE
  ELSE IF IsDate(h, a) /\ IsDate(h, b) THEN h[a.n].n = h[b.n].n
  ELSE IF IsRegExp(h, a) /\ IsRegExp(h, b) THEN h[a.n].s = h[b.n].s
  ELSE FALSE

areValuesEqual(h, a, b, strict) ==
  IF StrictEquals(a, b) THEN TRUE
  ELSE IF strict THEN FALSE
  ELSE IF a.t = "nan" /\ b.t = "nan" THEN TRUE
  ELSE IF (a = Null /\ b = Undefined) \/ (a = Undefined /\ b = Null) THEN TRUE
  ELSE IF /\ \/ TypeOf(a) = "string" /\ TypeOf(b) = "number"
             \/ TypeOf(a) = "number" /\ TypeOf(b) = "string"
          /\ ToNumber(a).t # "nan"
          /\ ToNumber(b).t # "nan"
          /\ ToNumber(a) = ToNumber(b)
       THEN TRUE
  ELSE IF /\ TypeOf(a) = "boolean" \/ TypeOf(b) = "boolean"
          /\ ToBoolean(a) = ToBoolean(b)
       THEN TRUE
  ELSE IF ~ToBoolean(a) \/ ~ToBoolean(b) THEN FALSE
  ELSE IF IsDate(h, a) /\ IsDate(h, b) THEN h[a.n].n = h[b.n].n
  ELSE IF IsRegExp(h, a) /\ IsRegExp(h, b) THEN h[a.n].s = h[b.n].s
  ELSE FALSE

-----------------------------------------------------------------------------
(* Traversal Engine *)

\* What a call returns or throws: k is "true", "false", "list" (a list of
\* conflict paths or of detailed differences), "throw" (a
\* CircularReferenceError naming path) or "overflow" (the RangeError of an
\* exhausted call stack).
ResTrue == [k |-> "true", list |-> <<>>, path |-> EmptyStr]
ResFalse == [k |-> "false", list |-> <<>>, path |-> EmptyStr]
ResList(list) == [k |-> "list", list |-> list, path |-> EmptyStr]
ResThrow(path) == [k |-> "throw", list |-> <<>>, path |-> path]
ResOverflow == [k |-> "overflow", list |-> <<>>, path |-> EmptyStr]
\* The value null, returned by the entry points of index.js for a missing input.
ResNull == [k |-> "null", list |-> <<>>, path |-> EmptyStr]

Difference(path, type, oldValue, newValue) ==
  [path |-> path, type |-> type, oldValue |-> oldValue, newValue |-> newValue]

\* The entry pushed for one difference at path: a DetailedDifference of type
\* 'changed', or the path itself.
ChangedEntry(detailed, path, a, b) ==
  IF detailed THEN Difference(path, "changed", a, b) ELSE path

\* visited.set(node, path)
MapSet(visited, id, path) ==
  [x \in (DOMAIN visited) \cup {id} |-> IF x = id THEN path ELSE visited[x]]

EmptyMap == [x \in {} |-> EmptyStr]

\* `${currentPath}[${i}]`
ElemPath(currentPath, i) == currentPath \o <<"[">> \o NatToStr(i) \o <<"]">>

\* A variant that names a property by its key alone, whatever its parent.
PropPathKeyOnly(currentPath, key) == key

\* currentPath ? `${currentPath}.${key}` : key
PropPath(currentPath, key) ==
  IF currentPath # EmptyStr THEN currentPath \o <<".">> \o key ELSE key

\* A variant that holds the keys of the first object only.
AllKeysOfFirst(h, a, b) == ObjectKeys(h, a)

\* new Set([...Object.keys(a), ...Object.keys(b)]) in its iteration order.
AllKeys(h, a, b) ==
  LET NotInA(key) == ~hasOwn(h, a, key)
  IN ObjectKeys(h, a) \o SelectSeq(ObjectKeys(h, b), NotInA)

RECURSIVE handleDepthComparison(_, _, _, _, _, _, _, _, _)
RECURSIVE ArrayLoop(_, _, _, _, _, _, _, _, _, _, _, _)
RECURSIVE ObjectLoop(_, _, _, _, _, _, _, _, _, _, _)

\* The loop over the elements of two arrays of equal length, from index i on.
ArrayLoop(h, firstValue, secondValue, currentPath, o, isArrayComparison, detailed, firstVisited, secondVisited, i, conflicts, hasConflict) ==
  IF i >= ArrLength(h, firstValue)
  THEN IF isArrayComparison /\ hasConflict /\ Len(conflicts) = 0 THEN ResFalse
       ELSE IF Len(conflicts) > 0 THEN ResList(conflicts) ELSE ResTrue
  ELSE
    LET elemPath == ElemPath(currentPath, i)
        a == ArrGet(h, firstValue, i)
        b == ArrGet(h, secondValue, i)
        Continue(c, hc) ==
          ArrayLoop(h, firstValue, secondValue, currentPath, o, isArrayComparison,
                    detailed, firstVisited, secondVisited, i + 1, c, hc)
    IN IF ~shouldComparePath(elemPath, o.pathFilter) THEN Continue(conflicts, hasConflict)
       ELSE IF isObject(h, a) /\ isObject(h, b)
       THEN LET r == handleDepthComparison(h, a, b, elemPath, o, FALSE, detailed,
                                           firstVisited, secondVisited)
            IN IF r.k = "overflow" THEN r
               ELSE IF r.k = "throw"
               THEN IF o.circularReferences = "error" THEN r
                    ELSE Continue(conflicts, hasConflict)
               ELSE IF r.k = "true" THEN Continue(conflicts, hasConflict)
               ELSE Continue(conflicts \o r.list, TRUE)
       ELSE IF IsArray(h, a) /\ IsArray(h, b)
       THEN LET r == handleDepthComparison(h, a, b, elemPath, o, TRUE, detailed,
                                           firstVisited, secondVisited)
            IN IF r.k = "overflow" THEN r
               ELSE IF r.k = "throw"
               THEN IF o.circularReferences = "error" THEN r
                    ELSE Continue(conflicts, hasConflict)
               ELSE IF r.k = "true" THEN Continue(conflicts, hasConflict)
               ELSE IF r.k = "list" THEN Continue(conflicts \o r.list, TRUE)
               ELSE Continue(Append(conflicts, ChangedEntry(detailed, elemPath, a, b)),
                             TRUE)
       ELSE IF ~areValuesEqual(h, a, b, o.strict)
       THEN Continue(Append(conflicts, ChangedEntry(detailed, elemPath, a, b)), TRUE)
       ELSE Continue(conflicts, hasConflict)

RECURSIVE ObjectLoopSharedLedger(_, _, _, _, _, _, _, _, _, _, _)
\* A variant in which the siblings share one ledger: a container compared
\* under one key is still recorded when the next key is compared.
ObjectLoopSharedLedger(h, firstValue, secondValue, currentPath, o, detailed, firstVisited, secondVisited, allKeys, k, conflicts) ==
  IF k > Len(allKeys)
  THEN IF Len(conflicts) > 0 THEN ResList(conflicts) ELSE ResTrue
  ELSE
    LET key == allKeys[k]
        hasFirst == hasOwn(h, firstValue, key)
        hasSecond == hasOwn(h, secondValue, key)
        propPath == PropPath(currentPath, key)
        Continue(c, fv, sv) ==
          ObjectLoopSharedLedger(h, firstValue, secondValue, currentPath, o,
                                 detailed, fv, sv, allKeys, k + 1, c)
    IN IF ~shouldComparePath(propPath, o.pathFilter)
       THEN Continue(conflicts, firstVisited, secondVisited)
       ELSE IF ~hasFirst \/ ~hasSecond
       THEN Continue(Append(conflicts,
                       IF detailed
                       THEN Difference(propPath,
                                       IF ~hasFirst THEN "added" ELSE "removed",
                                       IF ~hasFirst THEN Undefined
                                       ELSE GetProp(h, firstValue, key),
                                       IF ~hasSecond THEN Undefined
                                       ELSE GetProp(h, secondValue, key))
                       ELSE propPath),
                     firstVisited, secondVisited)
       ELSE
         LET a == GetProp(h, firstValue, key)
             b == GetProp(h, secondValue, key)
             r == handleDepthComparison(h, a, b, propPath, o, FALSE, detailed,
                                        firstVisited, secondVisited)
             entered == isObject(h, a) /\ isObject(h, b) /\ IsArray(h, a) = IsArray(h, b)
             fv == IF entered THEN MapSet(firstVisited, a.n, propPath)
                   ELSE firstVisited
             sv == IF entered THEN MapSet(secondVisited, b.n, propPath)
                   ELSE secondVisited
         IN IF r.k = "overflow" THEN r
            ELSE IF r.k = "throw"
            THEN IF o.circularReferences = "error" THEN r
                 ELSE Continue(Append(conflicts, ChangedEntry(detailed, propPath, a, b)),
                               fv, sv)
            ELSE IF r.k = "list" THEN Continue(conflicts \o r.list, fv, sv)
            ELSE Continue(conflicts, fv, sv)

\* The loop over allKeys of two objects, from the key at position k on.
ObjectLoop(h, firstValue, secondValue, currentPath, o, detailed, firstVisited, secondVisited, allKeys, k, conflicts) ==
  IF k > Len(allKeys)
  THEN IF Len(conflicts) > 0 THEN ResList(conflicts) ELSE ResTrue
  ELSE
    LET key == allKeys[k]
        hasFirst == hasOwn(h, firstValue, key)
        hasSecond == hasOwn(h, secondValue, key)
        propPath == PropPath(currentPath, key)
        Continue(c) ==
          ObjectLoop(h, firstValue, secondValue, currentPath, o, detailed,
                     firstVisited, secondVisited, allKeys, k + 1, c)
    IN IF ~shouldComparePath(propPath, o.pathFilter) THEN Continue(conflicts)
       ELSE IF ~hasFirst \/ ~hasSecond
       THEN IF detailed
            THEN Continue(Append(conflicts,
                   Difference(propPath,
                              IF ~hasFirst THEN "added" ELSE "removed",
                              IF ~hasFirst THEN Undefined
                                           ELSE GetProp(h, firstValue, key),
                              IF ~hasSecond THEN Undefined
                                            ELSE GetProp(h, secondValue, key))))
            ELSE Continue(Append(conflicts, propPath))
       ELSE
         LET a == GetProp(h, firstValue, key)
             b == GetProp(h, secondValue, key)
             r == handleDepthComparison(h, a, b, propPath, o, FALSE, detailed,
                                        firstVisited, secondVisited)
         IN IF r.k = "overflow" THEN r
            ELSE IF r.k = "throw"
            THEN IF o.circularReferences = "error" THEN r
                 ELSE Continue(Append(conflicts, ChangedEntry(detailed, propPath, a, b)))
            ELSE IF r.k = "list" THEN Continue(conflicts \o r.list)
            ELSE Continue(conflicts)

\* A variant that reports a revisited pair as equal under either policy.
VisitedBeforeNoFault(o, detailed, currentPath, firstValue, secondValue, firstVisited, secondVisited) ==
  IF firstValue.n \in DOMAIN firstVisited /\ secondValue.n \in DOMAIN secondVisited
  THEN ResTrue
  ELSE ResList(<<ChangedEntry(detailed, currentPath, firstValue, secondValue)>>)

\* A variant that reports every revisited pair as a difference under the
\* policy 'ignore'.
VisitedBeforeAlwaysDiffers(o, detailed, currentPath, firstValue, secondValue, firstVisited, secondVisited) ==
  IF o.circularReferences = "error" THEN ResThrow(currentPath)
  ELSE ResList(<<ChangedEntry(detailed, currentPath, firstValue, secondValue)>>)

\* What both container branches do with a pair of which one side is already
\* in its ledger.
VisitedBefore(o, detailed, currentPath, firstValue, secondValue, firstVisited, secondVisited) ==
  IF o.circularReferences = "error" THEN ResThrow(currentPath)
  ELSE IF firstValue.n \in DOMAIN firstVisited /\ secondValue.n \in DOMAIN secondVisited
       THEN ResTrue
       ELSE ResList(<<ChangedEntry(detailed, currentPath, firstValue, secondValue)>>)

handleDepthComparison(h, firstValue, secondValue, currentPath, o, isArrayComparison, detailed, firstVisited, secondVisited) ==
  IF currentPath # EmptyStr /\ ~shouldComparePath(currentPath, o.pathFilter)
  THEN ResTrue
  ELSE IF IsDate(h, firstValue) /\ IsDate(h, secondValue)
  THEN IF h[firstValue.n].n = h[secondValue.n].n THEN ResTrue
       ELSE ResList(<<ChangedEntry(detailed, currentPath, firstValue, secondValue)>>)
  ELSE IF IsRegExp(h, firstValue) /\ IsRegExp(h, secondValue)
  THEN IF h[firstValue.n].s = h[secondValue.n].s THEN ResTrue
       ELSE ResList(<<ChangedEntry(detailed, currentPath, firstValue, secondValue)>>)
  ELSE IF IsArray(h, firstValue) /\ IsArray(h, secondValue)
  THEN IF firstValue.n \in DOMAIN firstVisited \/ secondValue.n \in DOMAIN secondVisited
       THEN VisitedBefore(o, detailed, currentPath, firstValue, secondValue,
                          firstVisited, secondVisited)
       ELSE IF ArrLength(h, firstValue) # ArrLength(h, secondValue)
       THEN IF /\ isArrayComparison
               /\ o.pathFilter.on
               /\ ~shouldComparePath(currentPath, o.pathFilter)
            THEN ResTrue
            ELSE IF isArrayComparison THEN ResFalse
            ELSE ResList(<<ChangedEntry(detailed, currentPath, firstValue, secondValue)>>)
       ELSE ArrayLoop(h, firstValue, secondValue, currentPath, o, isArrayComparison,
                      detailed,
                      MapSet(firstVisited, firstValue.n, currentPath),
                      MapSet(secondVisited, secondValue.n, currentPath),
                      0, <<>>, FALSE)
  ELSE IF isObject(h, firstValue) /\ isObject(h, secondValue)
  THEN IF firstValue.n \in DOMAIN firstVisited \/ secondValue.n \in DOMAIN secondVisited
       THEN VisitedBefore(o, detailed, currentPath, firstValue, secondValue,
                          firstVisited, secondVisited)
       ELSE ObjectLoop(h, firstValue, secondValue, currentPath, o, detailed,
                       MapSet(firstVisited, firstValue.n, currentPath),
                       MapSet(secondVisited, secondValue.n, currentPath),
                       AllKeys(h, firstValue, secondValue), 1, <<>>)
  ELSE IF areValuesEqual(h, firstValue, secondValue, o.strict) THEN ResTrue
  ELSE ResList(<<ChangedEntry(detailed, currentPath, firstValue, secondValue)>>)

-----------------------------------------------------------------------------
(* Output Adapters *)

\* The keys a for...in loop over v visits: the keys of a container, the
\* character positions of a string, nothing for the other scalars.
ForInKeys(h, v) ==
  IF IsRef(v) THEN ObjectKeys(h, v)
  ELSE IF v.t = "string" THEN IndexKeys(Len(v.s))
  ELSE <<>>

\* v[key] === v for a key of ForInKeys: a container slot that holds the
\* container itself, or the one character of a one-character string.
SlotIsSelf(h, v, key) ==
  IF IsRef(v) THEN StrictEquals(GetProp(h, v, key), v)
  ELSE Len(v.s) = 1

\* The loop "for (const key in v) if (v[key] === v) throw": the first such
\* key, as <<key>>, or <<>>.
SelfReferenceKey(h, v) ==
  LET keys == ForInKeys(h, v)
      hits == {k \in 1..Len(keys) : SlotIsSelf(h, v, keys[k])}
  IN IF hits = {} THEN <<>>
     ELSE <<keys[CHOOSE k \in hits : \A j \in hits : k <= j]>>

\* The loop "for (i...) if (arr[i] === arr) throw" of CompareArrays: the
\* first such index, as <<i>>, or <<>>.
SelfReferenceIndex(h, arr) ==
  LET hits == {i \in 0..(ArrLength(h, arr) - 1) : StrictEquals(ArrGet(h, arr, i), arr)}
  IN IF hits = {} THEN <<>>
     ELSE <<CHOOSE i \in hits : \A j \in hits : i <= j>>

\* A variant that looks at the lengths of the two arrays only.
CompareArraysByLength(h, firstArray, secondArray, o) ==
  IF ~IsArray(h, firstArray) \/ ~IsArray(h, secondArray) THEN ResFalse
  ELSE IF ArrLength(h, firstArray) = ArrLength(h, secondArray) THEN ResTrue
  ELSE ResFalse

CompareArrays(h, firstArray, secondArray, o) ==
  IF ~IsArray(h, firstArray) \/ ~IsArray(h, secondArray) THEN ResFalse
  ELSE IF StrictEquals(firstArray, secondArray) THEN ResTrue
  ELSE IF o.circularReferences = "error" /\ SelfReferenceIndex(h, firstArray) # <<>>
  THEN ResThrow(ElemPath(EmptyStr, SelfReferenceIndex(h, firstArray)[1]))
  ELSE IF o.circularReferences = "error" /\ SelfReferenceIndex(h, secondArray) # <<>>
  THEN ResThrow(ElemPath(EmptyStr, SelfReferenceIndex(h, secondArray)[1]))
  ELSE LET r == handleDepthComparison(h, firstArray, secondArray, EmptyStr, o,
                                      TRUE, FALSE, EmptyMap, EmptyMap)
       IN IF r.k = "overflow" THEN r
          ELSE IF r.k = "throw"
          THEN IF o.circularReferences = "error" THEN r ELSE ResFalse
          ELSE IF r.k = "true" THEN ResTrue ELSE ResFalse

\* conflict.substring(0, conflict.indexOf('['))
ArrayPathOf(conflict) == SubstringTo(conflict, IndexOf(conflict, "["))

\* A variant of the post-processing loop that keeps the paths as the
\* traversal produced them.
RECURSIVE ProcessConflictsNoCut(_, _, _, _)
ProcessConflictsNoCut(conflicts, k, pathFilter, acc) ==
  IF k > Len(conflicts) THEN acc
  ELSE IF pathFilter.on /\ ~shouldComparePath(conflicts[k], pathFilter)
       THEN ProcessConflictsNoCut(conflicts, k + 1, pathFilter, acc)
       ELSE ProcessConflictsNoCut(conflicts, k + 1, pathFilter,
              IF \E j \in 1..Len(acc) : acc[j] = conflicts[k] THEN acc
              ELSE Append(acc, conflicts[k]))

\* The post-processing loop of CompareValuesWithConflicts from position k
\* on; acc is the Set in insertion order.
RECURSIVE ProcessConflicts(_, _, _, _)
ProcessConflicts(conflicts, k, pathFilter, acc) ==
  IF k > Len(conflicts) THEN acc
  ELSE LET conflict == conflicts[k]
           Add(p) == IF \E j \in 1..Len(acc) : acc[j] = p THEN acc ELSE Append(acc, p)
       IN IF pathFilter.on /\ ~shouldComparePath(conflict, pathFilter)
          THEN ProcessConflicts(conflicts, k + 1, pathFilter, acc)
          ELSE IF Includes(conflict, <<"[">>)
          THEN IF pathFilter.on /\ ~shouldComparePath(ArrayPathOf(conflict), pathFilter)
               THEN ProcessConflicts(conflicts, k + 1, pathFilter, acc)
               ELSE ProcessConflicts(conflicts, k + 1, pathFilter,
                                     Add(ArrayPathOf(conflict)))
          ELSE ProcessConflicts(conflicts, k + 1, pathFilter, Add(conflict))

CompareValuesWithConflicts(h, firstObject, secondObject, pathOfConflict, o) ==
  IF ObjectIs(firstObject, secondObject) THEN ResList(<<>>)
  ELSE IF o.circularReferences = "error" /\ SelfReferenceKey(h, firstObject) # <<>>
  THEN ResThrow(SelfReferenceKey(h, firstObject)[1])
  ELSE IF o.circularReferences = "error" /\ SelfReferenceKey(h, secondObject) # <<>>
  THEN ResThrow(SelfReferenceKey(h, secondObject)[1])
  ELSE LET r == handleDepthComparison(h, firstObject, secondObject, pathOfConflict, o,
                                      FALSE, FALSE, EmptyMap, EmptyMap)
       IN IF r.k = "overflow" THEN r
          ELSE IF r.k = "throw"
          THEN IF o.circularReferences = "error" THEN r ELSE ResList(<<>>)
          ELSE IF r.k # "list" THEN ResList(<<>>)
          ELSE ResList(ProcessConflicts(r.list, 1, o.pathFilter, <<>>))

\* The depth of nested calls at which the engine's call stack is exhausted
\* and a RangeError is thrown.
StackLimit == 12

\* typeof v === 'object' && v !== null
IsNonNullObject(v) == IsRef(v)

\* The inner loop over the patterns for one index i of two top-level arrays
\* (the special case for patterns that start with "[*]"), from pattern k on.
RECURSIVE TopArrayPatterns(_, _, _, _, _, _, _)
TopArrayPatterns(h, first, second, o, i, k, acc) ==
  IF k > Len(o.pathFilter.patterns) THEN acc
  ELSE
    LET pattern == o.pathFilter.patterns[k]
        propPattern == SubstringFrom(pattern, 3)
        propKey == IF StartsWith(propPattern, <<".">>)
                   THEN SubstringFrom(propPattern, 1) ELSE propPattern
        elemPath == ElemPath(EmptyStr, i)
        inFirst == i < ArrLength(h, first)
        inSecond == i < ArrLength(h, second)
        Continue(c) == TopArrayPatterns(h, first, second, o, i, k + 1, c)
    IN IF ~StartsWith(pattern, <<"[", "*", "]">>) THEN Continue(acc)
       ELSE IF ~inFirst
       THEN IF propPattern # EmptyStr
            THEN IF /\ IsNonNullObject(ArrGet(h, second, i))
                    /\ hasOwn(h, ArrGet(h, second, i), propKey)
                 THEN Continue(Append(acc,
                        Difference(elemPath \o propPattern, "added", Undefined,
                                   GetProp(h, ArrGet(h, second, i), propKey))))
                 ELSE Continue(acc)
            ELSE Continue(Append(acc,
                   Difference(elemPath, "added", Undefined, ArrGet(h, second, i))))
       ELSE IF ~inSecond
       THEN IF propPattern # EmptyStr
            THEN IF /\ IsNonNullObject(ArrGet(h, first, i))
                    /\ hasOwn(h, ArrGet(h, first, i), propKey)
                 THEN Continue(Append(acc,
                        Difference(elemPath \o propPattern, "removed",
                                   GetProp(h, ArrGet(h, first, i), propKey), Undefined)))
                 ELSE Continue(acc)
            ELSE Continue(Append(acc,
                   Difference(elemPath, "removed", ArrGet(h, first, i), Undefined)))
       ELSE
         LET a == ArrGet(h, first, i)
             b == ArrGet(h, second, i)
         IN IF propPattern # EmptyStr
            THEN IF IsNonNullObject(a) /\ IsNonNullObject(b)
                 THEN IF hasOwn(h, a, propKey) /\ hasOwn(h, b, propKey)
                      THEN IF ~areValuesEqual(h, GetProp(h, a, propKey),
                                              GetProp(h, b, propKey), o.strict)
                           THEN Continue(Append(acc,
                                  Difference(elemPath \o propPattern, "changed",
                                             GetProp(h, a, propKey),
                                             GetProp(h, b, propKey))))
                           ELSE Continue(acc)
                      ELSE IF hasOwn(h, a, propKey)
                      THEN Continue(Append(acc,
                             Difference(elemPath \o propPattern, "removed",
                                        GetProp(h, a, propKey), Undefined)))
                      ELSE IF hasOwn(h, b, propKey)
                      THEN Continue(Append(acc,
                             Difference(elemPath \o propPattern, "added", Undefined,
                                        GetProp(h, b, propKey))))
                      ELSE Continue(acc)
                 ELSE Continue(acc)
            ELSE IF ~areValuesEqual(h, a, b, o.strict)
                 THEN Continue(Append(acc, Difference(elemPath, "changed", a, b)))
                 ELSE Continue(acc)

\* The outer loop of that special case over the indices, from i on.
RECURSIVE TopArrayLoop(_, _, _, _, _, _)
TopArrayLoop(h, first, second, o, i, acc) ==
  LET max == IF ArrLength(h, first) > ArrLength(h, second)
             THEN ArrLength(h, first) ELSE ArrLength(h, second)
  IN IF i >= max THEN acc
     ELSE TopArrayLoop(h, first, second, o, i + 1,
                       TopArrayPatterns(h, first, second, o, i, 1, acc))

\* Whether some pattern may match below currentPath (the matchesChild loop).
MatchesChild(currentPath, patterns) ==
  \E k \in 1..Len(patterns) :
    \/ StartsWith(patterns[k], currentPath \o <<".">>)
    \/ currentPath = EmptyStr /\ ~StartsWith(patterns[k], <<".">>)

RECURSIVE comparePropertiesRecursively(_, _, _, _, _, _, _)
RECURSIVE IncludeArrayLoop(_, _, _, _, _, _, _, _)
RECURSIVE IncludeObjectLoop(_, _, _, _, _, _, _, _, _)

\* The loop over the indices of two arrays in the include-mode walk; the
\* result is [k, list]: the differences so far, or the overflow.
IncludeArrayLoop(h, first, second, currentPath, o, depth, i, acc) ==
  LET max == IF ArrLength(h, first) > ArrLength(h, second)
             THEN ArrLength(h, first) ELSE ArrLength(h, second)
      elemPath == ElemPath(currentPath, i)
      Continue(c) == IncludeArrayLoop(h, first, second, currentPath, o, depth, i + 1, c)
  IN IF i >= max THEN ResList(acc)
     ELSE IF i >= ArrLength(h, first)
     THEN IF shouldComparePath(elemPath, o.pathFilter)
          THEN Continue(Append(acc,
                 Difference(elemPath, "added", Undefined, ArrGet(h, second, i))))
          ELSE Continue(acc)
     ELSE IF i >= ArrLength(h, second)
     THEN IF shouldComparePath(elemPath, o.pathFilter)
          THEN Continue(Append(acc,
                 Difference(elemPath, "removed", ArrGet(h, first, i), Undefined)))
          ELSE Continue(acc)
     ELSE LET r == comparePropertiesRecursively(h, ArrGet(h, first, i),
                     ArrGet(h, second, i), elemPath, o, depth + 1, acc)
          IN IF r.k = "overflow" THEN r ELSE Continue(r.list)

\* The loop over allKeys of two objects in the include-mode walk.
IncludeObjectLoop(h, first, second, currentPath, o, depth, allKeys, k, acc) ==
  IF k > Len(allKeys) THEN ResList(acc)
  ELSE
    LET key == allKeys[k]
        propPath == PropPath(currentPath, key)
        Continue(c) ==
          IncludeObjectLoop(h, first, second, currentPath, o, depth, allKeys, k + 1, c)
    IN IF ~hasOwn(h, first, key)
       THEN IF shouldComparePath(propPath, o.pathFilter)
            THEN Continue(Append(acc,
                   Difference(propPath, "added", Undefined, GetProp(h, second, key))))
            ELSE Continue(acc)
       ELSE IF ~hasOwn(h, second, key)
       THEN IF shouldComparePath(propPath, o.pathFilter)
            THEN Continue(Append(acc,
                   Difference(propPath, "removed", GetProp(h, first, key), Undefined)))
            ELSE Continue(acc)
       ELSE LET r == comparePropertiesRecursively(h, GetProp(h, first, key),
                       GetProp(h, second, key), propPath, o, depth + 1, acc)
            IN IF r.k = "overflow" THEN r ELSE Continue(r.list)

\* The include-mode walk of CompareValuesWithDetailedDifferences; acc is the
\* differences array it pushes to, depth the number of nested calls.
comparePropertiesRecursively(h, first, second, currentPath, o, depth, acc) ==
  IF depth > StackLimit THEN ResOverflow
  ELSE IF /\ currentPath = EmptyStr
          /\ IsArray(h, first) /\ IsArray(h, second)
          /\ \E k \in 1..Len(o.pathFilter.patterns) :
               StartsWith(o.pathFilter.patterns[k], <<"[">>)
  THEN ResList(TopArrayLoop(h, first, second, o, 0, acc))
  ELSE IF /\ ~shouldComparePath(currentPath, o.pathFilter)
          /\ ~MatchesChild(currentPath, o.pathFilter.patterns)
  THEN ResList(acc)
  ELSE IF ~IsNonNullObject(first) \/ ~IsNonNullObject(second)
  THEN IF ~areValuesEqual(h, first, second, o.strict)
       THEN ResList(Append(acc, Difference(currentPath, "changed", first, second)))
       ELSE ResList(acc)
  ELSE IF IsArray(h, first) /\ IsArray(h, second)
  THEN IncludeArrayLoop(h, first, second, currentPath, o, depth, 0, acc)
  ELSE IncludeObjectLoop(h, first, second, currentPath, o, depth,
                         AllKeys(h, first, second), 1, acc)

\* detailedDifferences.filter(...) of the exclude path: an entry is kept when
\* its path is not empty and no pattern filters it.
KeepDifference(diff, pathFilter) ==
  diff.path # EmptyStr /\ ~shouldFilterPath(diff.path, pathFilter)

CompareValuesWithDetailedDifferences(h, firstObject, secondObject, pathOfConflict, o) ==
  IF ObjectIs(firstObject, secondObject) THEN ResList(<<>>)
  ELSE IF o.circularReferences = "error" /\ SelfReferenceKey(h, firstObject) # <<>>
  THEN ResThrow(SelfReferenceKey(h, firstObject)[1])
  ELSE IF o.circularReferences = "error" /\ SelfReferenceKey(h, secondObject) # <<>>
  THEN ResThrow(SelfReferenceKey(h, secondObject)[1])
  ELSE IF o.pathFilter.on /\ o.pathFilter.mode = "include"
  THEN comparePropertiesRecursively(h, firstObject, secondObject, pathOfConflict, o,
                                    1, <<>>)
  ELSE LET r == handleDepthComparison(h, firstObject, secondObject, pathOfConflict, o,
                                      FALSE, TRUE, EmptyMap, EmptyMap)
           Keep(diff) == KeepDifference(diff, o.pathFilter)
       IN IF r.k = "overflow" THEN r
          ELSE IF r.k = "throw"
          THEN IF o.circularReferences = "error" THEN r ELSE ResList(<<>>)
          ELSE IF r.k # "list" THEN ResList(<<>>)
          ELSE IF o.pathFilter.on /\ Len(o.pathFilter.patterns) > 0
          THEN ResList(SelectSeq(r.list, Keep))
          ELSE r

-----------------------------------------------------------------------------
(* The options of a call *)

\* A schema option (firstObjectSchema, secondObjectSchema): given is FALSE
\* when it is left out; props are the schema's properties in for-in order.
AbsentSchema == [given |-> FALSE, props |-> <<>>]

Schema(props) == [given |-> TRUE, props |-> props]

\* options.schemaValidation; on is FALSE when the option is left out.
SchemaValidation(first, second, throwOnValidationFailure) ==
  [on |-> TRUE, first |-> first, second |-> second,
   throwOnValidationFailure |-> throwOnValidationFailure]

NoSchema ==
  [on |-> FALSE, first |-> AbsentSchema, second |-> AbsentSchema,
   throwOnValidationFailure |-> Undefined]

\* The stores of the three memoized operations before any call: no key.
EmptyCache == [arrays |-> {}, conflicts |-> {}, detailed |-> {}]

Options(strict, circularReferences, pathFilter) ==
  [strict |-> strict, circularReferences |-> circularReferences,
   pathFilter |-> pathFilter]

\* The options a call without an options argument runs under.
DefaultOptions == Options(TRUE, "error", NoFilter)

-----------------------------------------------------------------------------
(* Memoization: the cache keys and the store of memoize *)

\* The characters of the keys of the model in the order of their UTF-16 code
\* units, which Array.prototype.sort compares by.
CodeUnitOrder ==
  <<",", "0", "1", "2", "3", "4", "5", "6", "7", "8", "9",
    "a", "b", "c", "d", "e", "p">>

CodeUnit(c) == CHOOSE k \in 1..Len(CodeUnitOrder) : CodeUnitOrder[k] = c

\* a < b as sort() compares two strings without a comparator.
RECURSIVE StringLess(_, _)
StringLess(a, b) ==
  IF Len(b) = 0 THEN FALSE
  ELSE IF Len(a) = 0 THEN TRUE
  ELSE IF a[1] = b[1] THEN StringLess(Tail(a), Tail(b))
  ELSE CodeUnit(a[1]) < CodeUnit(b[1])

\* keys.sort(): insertion of each key into the sorted rest.
RECURSIVE SortStrings(_)
SortStrings(keys) ==
  IF Len(keys) <= 1 THEN keys
  ELSE LET rest == SortStrings(Tail(keys))
           Before(k) == StringLess(k, keys[1])
           NotBefore(k) == ~StringLess(k, keys[1])
       IN SelectSeq(rest, Before) \o <<keys[1]>> \o SelectSeq(rest, NotBefore)

\* parts.join(sep)
RECURSIVE Join(_, _)
Join(parts, sep) ==
  IF Len(parts) = 0 THEN EmptyStr
  ELSE IF Len(parts) = 1 THEN parts[1]
  ELSE parts[1] \o sep \o Join(Tail(parts), sep)

Comma == <<",">>

\* JSON.stringify of a string without characters to escape.
JsonString(s) == <<"\"">> \o s \o <<"\"">>

JsonArray(items) == <<"[">> \o Join(items, Comma) \o <<"]">>

JsonObject(members) == <<"{">> \o Join(members, Comma) \o <<"}">>

JsonMember(key, text) == JsonString(key) \o <<":">> \o text

JsonNull == <<"n", "u", "l", "l">>

JsonBool(b) == IF b THEN <<"t", "r", "u", "e">> ELSE <<"f", "a", "l", "s", "e">>

\* Date.prototype.toISOString for a time of less than one second after the
\* epoch, which toJSON returns.
DateToISOString(time) ==
  <<"1", "9", "7", "0", "-", "0", "1", "-", "0", "1", "T",
    "0", "0", ":", "0", "0", ":", "0", "0", ".">>
  \o <<DigitChar(time \div 100), DigitChar((time \div 10) % 10), DigitChar(time % 10)>>
  \o <<"Z">>

\* What JSON.stringify ends with: the text, or a TypeError.
JsonText(s) == [ok |-> TRUE, s |-> s]
JsonTypeError == [ok |-> FALSE, s |-> EmptyStr]

\* JSON.stringify(v) below the containers anc that are being serialized:
\* NaN and, inside an array, undefined become null; a property whose value is
\* undefined is left out; a Date becomes its ISO string, a RegExp {} (it has
\* no enumerable property); a container met again below itself is a
\* TypeError ("Converting circular structure to JSON").
RECURSIVE JSONStringify(_, _, _)
RECURSIVE JsonItems(_, _, _, _, _)
JsonItems(h, v, anc, k, acc) ==
  IF k > Len(ObjectKeys(h, v)) THEN
    JsonText(IF h[v.n].kind = "arr" THEN JsonArray(acc) ELSE JsonObject(acc))
  ELSE LET val == h[v.n].vals[k]
       IN IF val = Undefined /\ h[v.n].kind # "arr"
          THEN JsonItems(h, v, anc, k + 1, acc)
          ELSE LET r == JSONStringify(h, val, Append(anc, v.n))
                   item == IF h[v.n].kind = "arr" THEN r.s
                           ELSE JsonMember(ObjectKeys(h, v)[k], r.s)
               IN IF ~r.ok THEN JsonTypeError
                  ELSE JsonItems(h, v, anc, k + 1, Append(acc, item))

JSONStringify(h, v, anc) ==
  CASE v.t \in {"undefined", "null", "nan"} -> JsonText(JsonNull)
    [] v.t = "boolean" -> JsonText(JsonBool(v.n = 1))
    [] v.t = "number" -> JsonText(NatToStr(v.n))
    [] v.t = "string" -> JsonText(JsonString(v.s))
    [] OTHER ->
         IF \E k \in 1..Len(anc) : anc[k] = v.n THEN JsonTypeError
         ELSE IF h[v.n].kind = "date" THEN JsonText(JsonString(DateToISOString(h[v.n].n)))
         ELSE IF h[v.n].kind = "regexp" THEN JsonText(JsonObject(<<>>))
         ELSE JsonItems(h, v, anc, 1, <<>>)

StrictName == <<"s", "t", "r", "i", "c", "t">>
CircularReferencesName ==
  <<"c", "i", "r", "c", "u", "l", "a", "r", "R", "e", "f", "e", "r", "e", "n", "c", "e", "s">>
PathFilterName == <<"p", "a", "t", "h", "F", "i", "l", "t", "e", "r">>
PatternsName == <<"p", "a", "t", "t", "e", "r", "n", "s">>
ModeName == <<"m", "o", "d", "e">>

\* The policy and mode names as JavaScript strings.
NameChars(name) ==
  CASE name = "error" -> <<"e", "r", "r", "o", "r">>
    [] name = "ignore" -> <<"i", "g", "n", "o", "r", "e">>
    [] name = "include" -> <<"i", "n", "c", "l", "u", "d", "e">>
    [] OTHER -> <<"e", "x", "c", "l", "u", "d", "e">>

\* JSON.stringify of { strict, circularReferences }.
SafeOptionsJson(o) ==
  JsonObject(<<JsonMember(StrictName, JsonBool(o.strict)),
               JsonMember(CircularReferencesName,
                          JsonString(NameChars(o.circularReferences)))>>)

\* JSON.stringify of the options object the caller passes: strict,
\* circularReferences and, when it is set, pathFilter.
OptionsJson(o) ==
  JsonObject(
    <<JsonMember(StrictName, JsonBool(o.strict)),
      JsonMember(CircularReferencesName, JsonString(NameChars(o.circularReferences)))>>
    \o IF o.pathFilter.on
       THEN <<JsonMember(PathFilterName,
                JsonObject(<<JsonMember(PatternsName,
                               JsonArray([k \in 1..Len(o.pathFilter.patterns) |->
                                            JsonString(o.pathFilter.patterns[k])])),
                             JsonMember(ModeName,
                               JsonString(NameChars(o.pathFilter.mode)))>>))>>
       ELSE <<>>)

\* Object.keys(v).sort().join(','): null and undefined have no keys to ask
\* for (a TypeError), a string has its character positions, the other
\* scalars none.
SortedKeysJoined(h, v) ==
  IF v.t \in {"undefined", "null"} THEN JsonTypeError
  ELSE JsonText(Join(SortStrings(ForInKeys(h, v)), Comma))

\* The key of MemoizedCompareArrays: JSON.stringify(args).
DefaultKey(h, first, second, o) ==
  LET a == JSONStringify(h, first, <<>>)
      b == JSONStringify(h, second, <<>>)
  IN IF ~a.ok \/ ~b.ok THEN JsonTypeError
     ELSE JsonText(JsonArray(<<a.s, b.s, OptionsJson(o)>>))

\* compareValuesWithConflictsKeyFn and compareValuesWithDetailedDifferencesKeyFn,
\* which have the same body.
compareValuesWithConflictsKeyFn(h, firstObject, secondObject, pathOfConflict, o) ==
  LET k1 == SortedKeysJoined(h, firstObject)
      k2 == SortedKeysJoined(h, secondObject)
  IN IF ~k1.ok \/ ~k2.ok THEN JsonTypeError
     ELSE JsonText(JsonArray(<<JsonString(k1.s), JsonString(k2.s),
                               JsonString(pathOfConflict), SafeOptionsJson(o)>>))

\* A TypeError thrown while the key is made.
ResTypeError == [k |-> "typeerror", list |-> <<>>, path |-> EmptyStr]

\* Whether a call that ended with r returned a value (and did not throw).
Returned(r) == r.k \in {"true", "false", "list", "null"}

CacheHas(store, key) == \E e \in store : e.key = key

CacheGet(store, key) == (CHOOSE e \in store : e.key = key).value

\* The function memoize returns, applied: what it returns or throws for the
\* key and the store, where computed is what fn returns or throws for the
\* arguments.
MemoizedResult(store, key, computed) ==
  IF ~key.ok THEN ResTypeError
  ELSE IF CacheHas(store, key.s) THEN CacheGet(store, key.s)
  ELSE computed

\* A variant that also keeps what a call threw.
MemoizedStoreOfAnyOutcome(store, key, computed) ==
  IF key.ok /\ ~CacheHas(store, key.s)
  THEN store \cup {[key |-> key.s, value |-> computed]}
  ELSE store

\* The store after that call: a returned value is kept under a new key.
MemoizedStore(store, key, computed) ==
  IF key.ok /\ ~CacheHas(store, key.s) /\ Returned(computed)
  THEN store \cup {[key |-> key.s, value |-> computed]}
  ELSE store

\* The calls of fn made so far, after that call: fn is called, with the
\* arguments of the call, when the key was made and the store does not hold
\* it.
MemoizedInvocations(store, key, invocations, fn) ==
  IF key.ok /\ ~CacheHas(store, key.s)
  THEN Append(invocations, [fn |-> fn, key |-> key.s])
  ELSE invocations

-----------------------------------------------------------------------------
(* CompareProperties *)

\* Object.prototype.hasOwnProperty.call(v, key) for any value but null and
\* undefined: a container's keys (and an array's length), a string's
\* character positions and length; the other scalars have no own property.
HasOwnProperty(h, v, key) ==
  IF IsRef(v) THEN hasOwn(h, v, key)
  ELSE /\ v.t = "string"
       /\ \/ key = LengthKey
          \/ \E k \in 1..Len(v.s) : IndexKeys(Len(v.s))[k] = key

\* The elements of new Set(keys) in their iteration order: each key at its
\* first place.
SetOrder(keys) ==
  LET First(k) == \A j \in 1..(k - 1) : keys[j] # keys[k]
      picked == {k \in 1..Len(keys) : First(k)}
      Nth(n) == CHOOSE k \in picked : Cardinality({j \in picked : j < k}) = n - 1
  IN [n \in 1..Cardinality(picked) |-> keys[Nth(n)]]

\* What CompareProperties returns: the lists differences and common.
ResProperties(differences, common) ==
  [k |-> "properties", list |-> <<differences, common>>, path |-> EmptyStr]

\* A variant that looks for the keys of the first object only.
ComparePropertiesFirstOnly(h, firstObject, secondObject) ==
  IF firstObject.t \in {"undefined", "null"} \/ secondObject.t \in {"undefined", "null"}
  THEN ResTypeError
  ELSE LET allKeys == SetOrder(ForInKeys(h, firstObject))
           InBoth(key) == /\ HasOwnProperty(h, firstObject, key)
                          /\ HasOwnProperty(h, secondObject, key)
           NotInBoth(key) == ~InBoth(key)
       IN ResProperties(SelectSeq(allKeys, NotInBoth), SelectSeq(allKeys, InBoth))

\* CompareProperties: Object.keys of null or undefined is a TypeError.
CompareProperties(h, firstObject, secondObject) ==
  IF firstObject.t \in {"undefined", "null"} \/ secondObject.t \in {"undefined", "null"}
  THEN ResTypeError
  ELSE LET allKeys == SetOrder(ForInKeys(h, firstObject) \o ForInKeys(h, secondObject))
           InBoth(key) == /\ HasOwnProperty(h, firstObject, key)
                          /\ HasOwnProperty(h, secondObject, key)
           NotInBoth(key) == ~InBoth(key)
       IN ResProperties(SelectSeq(allKeys, NotInBoth), SelectSeq(allKeys, InBoth))

-----------------------------------------------------------------------------
(* The entry points of the package (index) *)

\* A variant that looks at the first input only.
IndexCompareValuesWithConflictsFirstOnly(h, firstObject, secondObject, pathOfConflict) ==
  IF ~ToBoolean(firstObject) THEN ResNull
  ELSE CompareValuesWithConflicts(h, firstObject, secondObject, pathOfConflict,
                                  DefaultOptions)

\* CompareValuesWithConflicts of index.js: null for a falsy input, else the
\* engine's answer under the default options (an empty path is falsy and
\* is replaced by '').
IndexCompareValuesWithConflicts(h, firstObject, secondObject, pathOfConflict) ==
  IF ~ToBoolean(firstObject) THEN ResNull
  ELSE IF ~ToBoolean(secondObject) THEN ResNull
  ELSE CompareValuesWithConflicts(h, firstObject, secondObject, pathOfConflict,
                                  DefaultOptions)

\* CompareArrays of index.js: the engine's answer under the default options.
IndexCompareArrays(h, firstArray, secondArray) ==
  CompareArrays(h, firstArray, secondArray, DefaultOptions)

\* CompareValuesWithDetailedDifferences of the package entry point, which
\* the tests import from '../index': null if either root input is absent,
\* else the engine's answer.
IndexCompareValuesWithDetailedDifferences(h, firstObject, secondObject, pathOfConflict, o) ==
  IF firstObject \in {Null, Undefined} \/ secondObject \in {Null, Undefined}
  THEN ResNull
  ELSE CompareValuesWithDetailedDifferences(h, firstObject, secondObject, pathOfConflict, o)

-----------------------------------------------------------------------------
(* Schema validation before a comparison *)

\* The value of a schema property: a type name (a string), a nested schema
\* (an object) or an array that holds one item schema.
SchemaType(key, type) == [key |-> key, kind |-> "type", type |-> type, sub |-> <<>>]
SchemaObject(key, sub) == [key |-> key, kind |-> "object", type |-> EmptyStr, sub |-> sub]
SchemaArray(key, sub) == [key |-> key, kind |-> "array", type |-> EmptyStr, sub |-> sub]

AnyType == <<"a", "n", "y">>
NumberType == <<"n", "u", "m", "b", "e", "r">>
StringType == <<"s", "t", "r", "i", "n", "g">>
ArrayOfPrefix == <<"a", "r", "r", "a", "y", "<">>
ArrayOf(itemType) == ArrayOfPrefix \o itemType \o <<">">>

\* typeof v as a string.
TypeOfString(v) ==
  CASE TypeOf(v) = "undefined" -> <<"u", "n", "d", "e", "f", "i", "n", "e", "d">>
    [] TypeOf(v) = "boolean" -> <<"b", "o", "o", "l", "e", "a", "n">>
    [] TypeOf(v) = "number" -> NumberType
    [] TypeOf(v) = "string" -> StringType
    [] OTHER -> <<"o", "b", "j", "e", "c", "t">>

\* An error message: its template and the values put into it.
SchemaError(template, path, expected, got) ==
  [template |-> template, path |-> path, expected |-> expected, got |-> got]

\* obj[key] for an own property of a container or of a string.
OwnProperty(h, obj, key) ==
  IF IsRef(obj) THEN GetProp(h, obj, key)
  ELSE IF key = LengthKey THEN Num(Len(obj.s))
  ELSE Str(<<obj.s[CHOOSE k \in 1..Len(obj.s) : IndexKeys(Len(obj.s))[k] = key]>>)

\* The loop over the items of an array under the notation 'array<itemType>'.
RECURSIVE ArrayItemTypeErrors(_, _, _, _, _, _)
ArrayItemTypeErrors(h, objValue, itemType, currentPath, i, errors) ==
  IF i >= ArrLength(h, objValue) THEN errors
  ELSE LET item == h[objValue.n].vals[i + 1]
       IN ArrayItemTypeErrors(h, objValue, itemType, currentPath, i + 1,
            IF TypeOfString(item) # itemType /\ itemType # AnyType
            THEN Append(errors, SchemaError("Array item should be of type",
                                            ElemPath(currentPath, i), itemType,
                                            TypeOfString(item)))
            ELSE errors)

\* The branch of a schema value that is a string: a type constraint.
TypeConstraintErrors(h, objValue, expectedType, currentPath, errors) ==
  IF expectedType = AnyType THEN errors
  ELSE IF StartsWith(expectedType, ArrayOfPrefix) /\ EndsWith(expectedType, <<">">>)
  THEN IF ~IsArray(h, objValue)
       THEN Append(errors, SchemaError("Property should be an array", currentPath,
                                       EmptyStr, TypeOfString(objValue)))
       ELSE ArrayItemTypeErrors(h, objValue,
                                SubstringTo(SubstringFrom(expectedType, 6),
                                            Len(expectedType) - 7),
                                currentPath, 0, errors)
  ELSE IF TypeOfString(objValue) # expectedType
  THEN Append(errors, SchemaError("Property should be of type", currentPath,
                                  expectedType, TypeOfString(objValue)))
  ELSE errors

RECURSIVE validateObjectAgainstSchema(_, _, _, _, _, _)

\* The loop "for (const key in schema)" from the k-th property on; errors
\* holds the messages pushed so far.
validateObjectAgainstSchema(h, obj, schema, path, k, errors) ==
  IF k > Len(schema) THEN errors
  ELSE
    LET key == schema[k].key
        currentPath == PropPath(path, key)
        schemaValue == schema[k]
    IN validateObjectAgainstSchema(h, obj, schema, path, k + 1,
         IF ~HasOwnProperty(h, obj, key)
         THEN Append(errors, SchemaError("Missing required property", currentPath,
                                         EmptyStr, EmptyStr))
         ELSE LET objValue == OwnProperty(h, obj, key)
                  \* The loop over the items of an array under an array
                  \* schema of one item: the errors after the first n items.
                  ArrayItemSchemaErrors[n \in 0..Len(h)] ==
                    IF n = 0 THEN errors
                    ELSE LET item == h[objValue.n].vals[n]
                             itemPath == ElemPath(currentPath, n - 1)
                         IN IF isObject(h, item)
                            THEN validateObjectAgainstSchema(h, item, schemaValue.sub,
                                   itemPath, 1, ArrayItemSchemaErrors[n - 1])
                            ELSE Append(ArrayItemSchemaErrors[n - 1],
                                        SchemaError("Array item should be an object",
                                                    itemPath, EmptyStr,
                                                    TypeOfString(item)))
              IN CASE schemaValue.kind = "type" ->
                        TypeConstraintErrors(h, objValue, schemaValue.type,
                                             currentPath, errors)
                   [] schemaValue.kind = "object" /\ schemaValue.sub # <<>> ->
                        IF isObject(h, objValue)
                        THEN validateObjectAgainstSchema(h, objValue, schemaValue.sub,
                                                         currentPath, 1, errors)
                        ELSE Append(errors,
                                    SchemaError("Property should be an object",
                                                currentPath, EmptyStr,
                                                TypeOfString(objValue)))
                   [] schemaValue.kind = "array" ->
                        IF ~IsArray(h, objValue)
                        THEN Append(errors,
                                    SchemaError("Property should be an array",
                                                currentPath, EmptyStr,
                                                TypeOfString(objValue)))
                        ELSE ArrayItemSchemaErrors[ArrLength(h, objValue)]
                   [] OTHER -> errors)

\* A SchemaValidationResult; errors left undefined are the empty list.
SchemaValidationResult(firstObjectErrors, secondObjectErrors) ==
  [firstObjectValid |-> firstObjectErrors = <<>>,
   secondObjectValid |-> secondObjectErrors = <<>>,
   firstObjectErrors |-> firstObjectErrors,
   secondObjectErrors |-> secondObjectErrors]

NullSideError(side) == SchemaError(side, EmptyStr, EmptyStr, EmptyStr)

\* The outcome of ValidateObjectsAgainstSchemas: the result it returns, or
\* the result the SchemaValidationError it throws carries.
ValidationOutcome(thrown, validationResult) ==
  [thrown |-> thrown, validationResult |-> validationResult]

\* The two error lists of a validation of both sides.
BothValidated(h, firstObject, secondObject, schemaValidation) ==
  SchemaValidationResult(
    IF schemaValidation.first.given
    THEN validateObjectAgainstSchema(h, firstObject, schemaValidation.first.props,
                                     EmptyStr, 1, <<>>)
    ELSE <<>>,
    IF schemaValidation.second.given
    THEN validateObjectAgainstSchema(h, secondObject, schemaValidation.second.props,
                                     EmptyStr, 1, <<>>)
    ELSE <<>>)

\* The end of ValidateObjectsAgainstSchemas: it throws the result when the
\* option asks for it and a side is not valid, and returns it otherwise.
ThrowOrReturn(throwOnValidationFailure, validationResult) ==
  ValidationOutcome(/\ throwOnValidationFailure
                    /\ \/ ~validationResult.firstObjectValid
                       \/ ~validationResult.secondObjectValid,
                    validationResult)

\* A variant that throws on a failed validation whatever the options say.
ValidateObjectsAgainstSchemasAlwaysThrowing(h, firstObject, secondObject, schemaValidation) ==
  ThrowOrReturn(TRUE, BothValidated(h, firstObject, secondObject, schemaValidation))

ValidateObjectsAgainstSchemas(h, firstObject, secondObject, schemaValidation) ==
  IF ~ToBoolean(firstObject) \/ ~ToBoolean(secondObject)
  THEN ValidationOutcome(FALSE,
         SchemaValidationResult(
           IF ~ToBoolean(firstObject)
           THEN <<NullSideError("First object is null or undefined")>> ELSE <<>>,
           IF ~ToBoolean(secondObject)
           THEN <<NullSideError("Second object is null or undefined")>> ELSE <<>>))
  ELSE ThrowOrReturn(ToBoolean(schemaValidation.throwOnValidationFailure),
                     BothValidated(h, firstObject, secondObject, schemaValidation))

\* A SchemaValidationError that leaves an entry point, with the result it
\* carries.
ResValidationError(validationResult) ==
  [k |-> "validation", list |-> <<validationResult>>, path |-> EmptyStr]

ItemsKey == <<"i", "t", "e", "m", "s">>

\* { items: [schema] }, or undefined for a schema left out.
WrappedSchema(schema) ==
  IF schema.given THEN Schema(<<SchemaArray(ItemsKey, schema.props)>>)
  ELSE AbsentSchema

\* An entry point after its validation: the error the validation threw
\* leaves it, or the comparison runs; validated is FALSE when the entry point
\* did not call the validation.
ValidationThenComparison(validated, outcome, compared) ==
  IF validated /\ outcome.thrown THEN ResValidationError(outcome.validationResult)
  ELSE compared

\* The entry points of the comparison modules: the schema validation, then
\* the comparison itself.
ValidatedCompareArrays(h, firstArray, secondArray, o, schemaValidation) ==
  IF ~IsArray(h, firstArray) \/ ~IsArray(h, secondArray) THEN ResFalse
  ELSE ValidationThenComparison(
         /\ schemaValidation.on
         /\ schemaValidation.first.given \/ schemaValidation.second.given,
         ValidateObjectsAgainstSchemas(
           h \o <<ObjNode(<<ItemsKey>>, <<firstArray>>),
                  ObjNode(<<ItemsKey>>, <<secondArray>>)>>,
           Ref(Len(h) + 1), Ref(Len(h) + 2),
           SchemaValidation(WrappedSchema(schemaValidation.first),
                            WrappedSchema(schemaValidation.second),
                            schemaValidation.throwOnValidationFailure)),
         CompareArrays(h, firstArray, secondArray, o))

ValidatedCompareValuesWithConflicts(h, firstObject, secondObject, pathOfConflict, o, schemaValidation) ==
  ValidationThenComparison(
    schemaValidation.on,
    ValidateObjectsAgainstSchemas(h, firstObject, secondObject, schemaValidation),
    CompareValuesWithConflicts(h, firstObject, secondObject, pathOfConflict, o))

ValidatedCompareValuesWithDetailedDifferences(h, firstObject, secondObject, pathOfConflict, o, schemaValidation) ==
  ValidationThenComparison(
    schemaValidation.on,
    ValidateObjectsAgainstSchemas(h, firstObject, secondObject, schemaValidation),
    CompareValuesWithDetailedDifferences(h, firstObject, secondObject,
                                         pathOfConflict, o))

-----------------------------------------------------------------------------
(* The caller: it builds two inputs in the heap, chooses the options and   *)
(* calls one public operation; pc names the operation called and result    *)
(* what it returned or threw.                                               *)

KeyA == <<"a">>
KeyB == <<"b">>
KeyC == <<"c">>

\* Leaves for the comparisons of scalars, temporal values and pattern
\* matchers: the heap nodes 3.. hold the Dates, RegExps and small containers
\* that the two roots (nodes 1 and 2) may refer to.
LeafNodes ==
  <<DateNode(1), DateNode(1), DateNode(2),
    RegExpNode(<<"/", "x", "/">>), RegExpNode(<<"/", "x", "/">>),
    RegExpNode(<<"/", "y", "/">>),
    ObjNode(<<KeyC>>, <<Num(1)>>), ObjNode(<<KeyC>>, <<Num(1)>>),
    ArrNode(<<Num(1)>>), ArrNode(<<Num(1)>>)>>

ScalarLeaves ==
  {Undefined, Null, NaN, Bool(TRUE), Bool(FALSE), Num(0), Num(1),
   Str(EmptyStr), Str(<<"1">>), Str(<<"a">>)}

Leaves == ScalarLeaves \cup {Ref(2 + k) : k \in 1..Len(LeafNodes)}

\* The shapes of the two roots around a pair of leaves v, w.
ShapeNames ==
  {"root", "array", "object", "shared", "sharedArray", "otherKey", "longer"}

ShapeRoots(shape, v, w) ==
  CASE shape = "array" -> <<ArrNode(<<v>>), ArrNode(<<w>>)>>
    [] shape = "object" -> <<ObjNode(<<KeyA>>, <<v>>), ObjNode(<<KeyA>>, <<w>>)>>
    [] shape = "shared" -> <<ObjNode(<<KeyA, KeyB>>, <<v, v>>),
                             ObjNode(<<KeyB, KeyA>>, <<w, w>>)>>
    [] shape = "sharedArray" -> <<ArrNode(<<v, v>>), ArrNode(<<w, w>>)>>
    [] shape = "otherKey" -> <<ObjNode(<<KeyA>>, <<v>>), ObjNode(<<KeyB>>, <<w>>)>>
    [] shape = "longer" -> <<ArrNode(<<v>>), ArrNode(<<v, w>>)>>
    [] OTHER -> <<ObjNode(<<>>, <<>>), ObjNode(<<>>, <<>>)>>

InitLeaves ==
  \E shape \in ShapeNames, v \in Leaves, w \in Leaves, strict \in BOOLEAN,
     circ \in {"error", "ignore"} :
    /\ heap = ShapeRoots(shape, v, w) \o LeafNodes
    /\ argFirst = IF shape = "root" THEN v ELSE Ref(1)
    /\ argSecond = IF shape = "root" THEN w ELSE Ref(2)
    /\ argPath = EmptyStr
    /\ argOptions = Options(strict, circ, NoFilter)
    /\ argSchema = NoSchema
    /\ cache = EmptyCache
    /\ calls = 0
    /\ fnCalls = <<>>
    /\ pc = "ready"
    /\ result = ResTrue

KeyP == <<"p">>
KeyD == <<"d">>
KeyE == <<"e">>

\* One side of a pair of possibly cyclic graphs: a root {a: leafA, b: link}
\* (or {a: leafA, d: link}) or [leafA, link] and a child {c: leafC, p:
\* childLink} or [leafC, childLink] of the same kind.  The link of the root
\* holds the root itself, the child or a number; the link of the child holds
\* the root (its parent), the child itself or a number.  A child that the
\* root does not refer to is kept in one form only, and so is the name of
\* the link of an array.
CycleSides ==
  {s \in [kind : {"obj", "arr"}, leafA : {1, 2}, linkKey : {KeyB, KeyD},
          link : {"self", "child", "none"},
          childLink : {"parent", "self", "none"}, leafC : {1, 2}] :
     /\ s.link # "child" => (s.childLink = "none" /\ s.leafC = 1)
     /\ s.kind = "arr" => s.linkKey = KeyB}

LinkValue(name, rootId, childId) ==
  CASE name = "child" -> Ref(childId)
    [] name = "root" -> Ref(rootId)
    [] OTHER -> Num(0)

RootNode(s, rootId, childId) ==
  LET link == LinkValue(IF s.link = "self" THEN "root" ELSE s.link, rootId, childId)
  IN IF s.kind = "obj" THEN ObjNode(<<KeyA, s.linkKey>>, <<Num(s.leafA), link>>)
     ELSE ArrNode(<<Num(s.leafA), link>>)

ChildNode(s, rootId, childId) ==
  LET link == LinkValue(IF s.childLink = "parent" THEN "root"
                        ELSE IF s.childLink = "self" THEN "child" ELSE "none",
                        rootId, childId)
  IN IF s.kind = "obj" THEN ObjNode(<<KeyC, KeyP>>, <<Num(s.leafC), link>>)
     ELSE ArrNode(<<Num(s.leafC), link>>)

CycleFilters ==
  {NoFilter, Filter(<<KeyB>>, "exclude"), Filter(<<KeyB>>, "include"),
   Filter(<<>>, "exclude"), Filter(<<>>, "include")}

\* Two graphs (nodes 1 and 3, nodes 2 and 4); the second argument is the
\* second root, or the first root itself when both sides are alike.
InitCycles ==
  \E s1 \in CycleSides, s2 \in CycleSides, strict \in BOOLEAN,
     circ \in {"error", "ignore"}, pf \in CycleFilters :
    /\ heap = <<RootNode(s1, 1, 3), RootNode(s2, 2, 4),
                ChildNode(s1, 1, 3), ChildNode(s2, 2, 4)>>
    /\ argFirst = Ref(1)
    /\ argSecond \in {Ref(2)} \cup (IF s1 = s2 THEN {Ref(1)} ELSE {})
    /\ argPath = EmptyStr
    /\ argOptions = Options(strict, circ, pf)
    /\ argSchema = NoSchema
    /\ cache = EmptyCache
    /\ calls = 0
    /\ fnCalls = <<>>
    /\ pc = "ready"
    /\ result = ResTrue

\* The patterns of the filters tried on nested inputs: the full paths of the
\* leaves "a", "c.d", "c.e", a parent path, an index wildcard, a leading-dot
\* pattern and a property wildcard.
PathPatterns ==
  <<KeyA, <<"c", ".", "d">>, <<"c", ".", "e">>, KeyC, <<"c", "[", "*", "]">>,
    <<".", "d">>, <<"c", ".", "*">>>>

\* The lists of one pattern and of two different patterns; PathFilters adds
\* the empty list.
PatternLists ==
  {<<PathPatterns[i]>> : i \in 1..Len(PathPatterns)}
  \cup {<<PathPatterns[ij[1]], PathPatterns[ij[2]]>> :
          ij \in {ij \in (1..Len(PathPatterns)) \X (1..Len(PathPatterns)) :
                    ij[1] < ij[2]}}

PathFilters ==
  {NoFilter}
  \cup {Filter(ps, mode) : ps \in PatternLists \cup {<<>>},
                           mode \in {"exclude", "include"}}
  \cup {Filter(<<PathPatterns[i]>>, "unset") : i \in 1..Len(PathPatterns)}

\* A root {a: x, c: inner} or [x, inner] whose inner container is {d: y,
\* e: z}, [y, z] or, on the second side of "arrShort" and "objShort", [y]
\* and {d: y}.
NestedRoot(rootKind, x, innerId) ==
  IF rootKind = "obj" THEN ObjNode(<<KeyA, KeyC>>, <<Num(x), Ref(innerId)>>)
  ELSE ArrNode(<<Num(x), Ref(innerId)>>)

NestedInner(innerKind, y, z) ==
  CASE innerKind = "obj" -> ObjNode(<<KeyD, KeyE>>, <<Num(y), Num(z)>>)
    [] innerKind = "arr" -> ArrNode(<<Num(y), Num(z)>>)
    [] innerKind = "objShort" -> ObjNode(<<KeyD>>, <<Num(y)>>)
    [] OTHER -> ArrNode(<<Num(y)>>)

InitPaths ==
  \E rootKind \in {"obj", "arr"}, innerKind \in {"obj", "arr", "arrShort", "objShort"},
     x \in {1, 2}, y \in {1, 2}, z \in {1, 2}, pf \in PathFilters,
     prefix \in {EmptyStr, <<"r", "[", "0", "]">>} :
    /\ heap = <<NestedRoot(rootKind, 1, 3), NestedRoot(rootKind, x, 4),
                NestedInner(CASE innerKind = "arrShort" -> "arr"
                              [] innerKind = "objShort" -> "obj"
                              [] OTHER -> innerKind, 1, 1),
                NestedInner(innerKind, y, z)>>
    /\ argFirst = Ref(1)
    /\ argSecond = Ref(2)
    /\ argPath = prefix
    /\ argOptions = Options(TRUE, "error", pf)
    /\ argSchema = NoSchema
    /\ cache = EmptyCache
    /\ calls = 0
    /\ fnCalls = <<>>
    /\ pc = "ready"
    /\ result = ResTrue

\* Roots that differ at the root path itself: arrays of different lengths,
\* two Dates, an object against a number and an object against an array;
\* and, for comparison, two objects that differ at "a" and two that hold a
\* mapping {d: 1} and a number under "c", and two objects that differ at
\* "d".  The filters name the key "a", the key "c", the leaf "c.d" or the
\* field ".d".
RootNodes ==
  <<ArrNode(<<Num(1)>>), ArrNode(<<Num(1), Num(2)>>),
    ObjNode(<<KeyA>>, <<Num(1)>>), ObjNode(<<KeyA>>, <<Num(2)>>),
    DateNode(1), DateNode(2),
    ObjNode(<<KeyC>>, <<Ref(8)>>), ObjNode(<<KeyD>>, <<Num(1)>>),
    ObjNode(<<KeyC>>, <<Num(1)>>), ObjNode(<<KeyD>>, <<Num(2)>>)>>

RootPairs ==
  {<<Ref(1), Ref(2)>>, <<Ref(3), Ref(4)>>, <<Ref(5), Ref(6)>>,
   <<Ref(3), Num(1)>>, <<Ref(1), Ref(3)>>, <<Ref(7), Ref(9)>>, <<Ref(9), Ref(7)>>,
   <<Ref(8), Ref(10)>>}

InitRoots ==
  \E pair \in RootPairs,
     pattern \in {KeyA, KeyC, <<"c", ".", "d">>, <<".", "d">>},
     mode \in {"exclude", "unset", "include"}, strict \in BOOLEAN :
    /\ heap = RootNodes
    /\ argFirst = pair[1]
    /\ argSecond = pair[2]
    /\ argPath = EmptyStr
    /\ argOptions = Options(strict, "error", Filter(<<pattern>>, mode))
    /\ argSchema = NoSchema
    /\ cache = EmptyCache
    /\ calls = 0
    /\ fnCalls = <<>>
    /\ pc = "ready"
    /\ result = ResTrue

\* A session of memoized calls: the inputs the caller holds (two plain
\* objects that differ in one value, an array holding null and one holding
\* undefined, a copy of the first object and of the first array, and an
\* object that holds itself) and the arguments of one call.
MemoNodes ==
  <<ObjNode(<<KeyA>>, <<Num(1)>>), ObjNode(<<KeyA>>, <<Num(2)>>),
    ArrNode(<<Null>>), ArrNode(<<Undefined>>),
    ObjNode(<<KeyA>>, <<Num(1)>>), ArrNode(<<Null>>),
    ObjNode(<<KeyA>>, <<Ref(7)>>)>>

MemoFirsts == {Ref(1), Ref(2), Ref(3), Ref(4), Ref(7)}

MemoSeconds == {Ref(5), Ref(6)}

MemoOptions ==
  {Options(TRUE, "error", NoFilter), Options(TRUE, "error", Filter(<<KeyA>>, "exclude"))}

\* The calls one session makes at most.
MaxCalls == 2

InitMemo ==
  \E first \in MemoFirsts, second \in MemoSeconds, o \in MemoOptions :
    /\ heap = MemoNodes
    /\ argFirst = first
    /\ argSecond = second
    /\ argPath = EmptyStr
    /\ argOptions = o
    /\ argSchema = NoSchema
    /\ cache = EmptyCache
    /\ calls = 0
    /\ fnCalls = <<>>
    /\ pc = "session"
    /\ result = ResTrue

\* Two plain objects for CompareProperties: their keys in several orders,
\* with values that may be undefined.
KeyLists ==
  {<<>>, <<KeyA>>, <<KeyB>>, <<KeyA, KeyB>>, <<KeyB, KeyA>>, <<KeyA, KeyB, KeyC>>,
   <<KeyC, KeyA>>}

InitProperties ==
  \E keys1 \in KeyLists, keys2 \in KeyLists,
     v \in {Num(1), Undefined}, w \in {Num(1), Num(2), Undefined} :
    /\ heap = <<ObjNode(keys1, [k \in 1..Len(keys1) |-> v]),
                ObjNode(keys2, [k \in 1..Len(keys2) |-> w])>>
    /\ argFirst = Ref(1)
    /\ argSecond = Ref(2)
    /\ argPath = EmptyStr
    /\ argOptions = DefaultOptions
    /\ argSchema = NoSchema
    /\ cache = EmptyCache
    /\ calls = 0
    /\ fnCalls = <<>>
    /\ pc = "ready"
    /\ result = ResTrue

\* Inputs for a leading-dot pattern: two roots {k1: x} that differ in one
\* leaf, where x is {k2: leaf}, [leaf] or [{k2: leaf}] and the keys are the
\* pattern's field name or hold it at their start or at their end.
DotKeys == {KeyC, KeyD, <<"a", "d">>, <<"d", "a">>}

DotPatternFilter == Filter(<<<<".", "d">>>>, "exclude")

DotInner(innerKind, k2, leaf, innermostId) ==
  CASE innerKind = "obj" -> ObjNode(<<k2>>, <<leaf>>)
    [] innerKind = "arr" -> ArrNode(<<leaf>>)
    [] OTHER -> ArrNode(<<Ref(innermostId)>>)

InitDotPattern ==
  \E k1 \in DotKeys, k2 \in DotKeys, innerKind \in {"obj", "arr", "arrOfObj"},
     mode \in {"exclude", "include"} :
    /\ heap = <<ObjNode(<<k1>>, <<Ref(3)>>), ObjNode(<<k1>>, <<Ref(4)>>),
                DotInner(innerKind, k2, Num(1), 5), DotInner(innerKind, k2, Num(2), 6),
                ObjNode(<<k2>>, <<Num(1)>>), ObjNode(<<k2>>, <<Num(2)>>)>>
    /\ argFirst = Ref(1)
    /\ argSecond = Ref(2)
    /\ argPath = EmptyStr
    /\ argOptions = Options(TRUE, "error", [DotPatternFilter EXCEPT !.mode = mode])
    /\ argSchema = NoSchema
    /\ cache = EmptyCache
    /\ calls = 0
    /\ fnCalls = <<>>
    /\ pc = "ready"
    /\ result = ResTrue

\* Inputs for the schema validation: a first root {a: va, c: vc} whose c is
\* an object {d: y}, the root itself, a number or an array of numbers, a
\* second root {a: x, c: {d: 1}}, an array of each root, a null and an
\* undefined side; the schemas name properties the inputs hold with the
\* right or the wrong type, hold in the wrong kind, or lack.
SchemaNodes(va, vc, y, x) ==
  <<ObjNode(<<KeyA, KeyC>>, <<va, vc>>), ObjNode(<<KeyA, KeyC>>, <<x, Ref(4)>>),
    ObjNode(<<KeyD>>, <<y>>), ObjNode(<<KeyD>>, <<Num(1)>>),
    ArrNode(<<Ref(1)>>), ArrNode(<<Ref(2)>>), ArrNode(<<Num(1)>>)>>

SchemaRoots ==
  {<<Ref(1), Ref(2)>>, <<Ref(5), Ref(6)>>, <<Ref(7), Ref(6)>>,
   <<Null, Ref(2)>>, <<Ref(1), Undefined>>}

Schemas ==
  {Schema(<<>>),
   Schema(<<SchemaType(KeyA, NumberType)>>),
   Schema(<<SchemaType(KeyA, NumberType),
            SchemaObject(KeyC, <<SchemaType(KeyD, NumberType)>>)>>),
   Schema(<<SchemaType(KeyB, AnyType)>>),
   Schema(<<SchemaType(KeyA, AnyType),
            SchemaArray(KeyC, <<SchemaType(KeyD, NumberType)>>)>>),
   Schema(<<SchemaType(KeyC, ArrayOf(NumberType))>>)}

InitSchemas ==
  \E va \in {Num(1), Str(<<"x">>)}, vc \in {Ref(3), Ref(1), Num(1), Ref(7)},
     y \in {Num(2), Ref(1)}, x \in {Num(1), Str(<<"x">>)}, roots \in SchemaRoots,
     first \in Schemas \cup {AbsentSchema},
     second \in {AbsentSchema, Schema(<<SchemaType(KeyA, NumberType)>>)},
     throwOnValidationFailure \in {Bool(TRUE), Bool(FALSE), Undefined},
     circ \in {"error", "ignore"} :
    /\ heap = SchemaNodes(va, vc, y, x)
    /\ argFirst = roots[1]
    /\ argSecond = roots[2]
    /\ argPath = EmptyStr
    /\ argOptions = Options(TRUE, circ, NoFilter)
    /\ argSchema = SchemaValidation(first, second, throwOnValidationFailure)
    /\ cache = EmptyCache
    /\ calls = 0
    /\ fnCalls = <<>>
    /\ pc = "ready.schemaValidation"
    /\ result = ResTrue

Init ==
  InitLeaves \/ InitCycles \/ InitPaths \/ InitProperties \/ InitDotPattern \/ InitRoots

\* The callers of the package's entry points hold the inputs of the leaves.
InitIndex == InitLeaves

CallCompareArrays ==
  /\ pc = "ready"
  /\ pc' = "CompareArrays"
  /\ result' = CompareArrays(heap, argFirst, argSecond, argOptions)
  /\ UNCHANGED <<heap, argFirst, argSecond, argPath, argOptions, argSchema, cache, calls,
               fnCalls>>

CallCompareValuesWithConflicts ==
  /\ pc = "ready"
  /\ pc' = "CompareValuesWithConflicts"
  /\ result' = CompareValuesWithConflicts(heap, argFirst, argSecond, argPath, argOptions)
  /\ UNCHANGED <<heap, argFirst, argSecond, argPath, argOptions, argSchema, cache, calls,
               fnCalls>>

CallCompareValuesWithDetailedDifferences ==
  /\ pc = "ready"
  /\ pc' = "CompareValuesWithDetailedDifferences"
  /\ result' = CompareValuesWithDetailedDifferences(heap, argFirst, argSecond, argPath,
                                                    argOptions)
  /\ UNCHANGED <<heap, argFirst, argSecond, argPath, argOptions, argSchema, cache, calls,
               fnCalls>>

CallCompareProperties ==
  /\ pc = "ready"
  /\ pc' = "CompareProperties"
  /\ result' = CompareProperties(heap, argFirst, argSecond)
  /\ UNCHANGED <<heap, argFirst, argSecond, argPath, argOptions, argSchema, cache, calls,
               fnCalls>>

CallIndexCompareArrays ==
  /\ pc = "ready"
  /\ pc' = "index.CompareArrays"
  /\ result' = IndexCompareArrays(heap, argFirst, argSecond)
  /\ UNCHANGED <<heap, argFirst, argSecond, argPath, argOptions, argSchema, cache, calls,
               fnCalls>>

CallIndexCompareValuesWithConflicts ==
  /\ pc = "ready"
  /\ pc' = "index.CompareValuesWithConflicts"
  /\ result' = IndexCompareValuesWithConflicts(heap, argFirst, argSecond, argPath)
  /\ UNCHANGED <<heap, argFirst, argSecond, argPath, argOptions, argSchema, cache, calls,
               fnCalls>>

CallIndexCompareValuesWithDetailedDifferences ==
  /\ pc = "ready"
  /\ pc' = "index.CompareValuesWithDetailedDifferences"
  /\ result' = IndexCompareValuesWithDetailedDifferences(heap, argFirst, argSecond,
                                                         argPath, argOptions)
  /\ UNCHANGED <<heap, argFirst, argSecond, argPath, argOptions, argSchema, cache, calls,
               fnCalls>>

\* MemoizedCompareArrays = memoize(CompareArrays), called with the options.
CallMemoizedCompareArrays ==
  /\ pc = "session"
  /\ calls < MaxCalls
  /\ \E key \in {DefaultKey(heap, argFirst, argSecond, argOptions)},
        computed \in {CompareArrays(heap, argFirst, argSecond, argOptions)} :
       /\ result' = MemoizedResult(cache.arrays, key, computed)
       /\ cache' = [cache EXCEPT !.arrays = MemoizedStore(cache.arrays, key, computed)]
       /\ fnCalls' = MemoizedInvocations(cache.arrays, key, fnCalls, "CompareArrays")
  /\ calls' = calls + 1
  /\ pc' = "MemoizedCompareArrays"
  /\ UNCHANGED <<heap, argFirst, argSecond, argPath, argOptions, argSchema>>

CallMemoizedCompareValuesWithConflicts ==
  /\ pc = "session"
  /\ calls < MaxCalls
  /\ \E key \in {compareValuesWithConflictsKeyFn(heap, argFirst, argSecond, argPath,
                                                argOptions)},
        computed \in {CompareValuesWithConflicts(heap, argFirst, argSecond, argPath,
                                                argOptions)} :
       /\ result' = MemoizedResult(cache.conflicts, key, computed)
       /\ cache' = [cache EXCEPT
                       !.conflicts = MemoizedStore(cache.conflicts, key, computed)]
       /\ fnCalls' = MemoizedInvocations(cache.conflicts, key, fnCalls, "CompareValuesWithConflicts")
  /\ calls' = calls + 1
  /\ pc' = "MemoizedCompareValuesWithConflicts"
  /\ UNCHANGED <<heap, argFirst, argSecond, argPath, argOptions, argSchema>>

CallMemoizedCompareValuesWithDetailedDifferences ==
  /\ pc = "session"
  /\ calls < MaxCalls
  /\ \E key \in {compareValuesWithConflictsKeyFn(heap, argFirst, argSecond, argPath,
                                                argOptions)},
        computed \in {CompareValuesWithDetailedDifferences(heap, argFirst, argSecond,
                                                          argPath, argOptions)} :
       /\ result' = MemoizedResult(cache.detailed, key, computed)
       /\ cache' = [cache EXCEPT
                       !.detailed = MemoizedStore(cache.detailed, key, computed)]
       /\ fnCalls' = MemoizedInvocations(cache.detailed, key, fnCalls, "CompareValuesWithDetailedDifferences")
  /\ calls' = calls + 1
  /\ pc' = "MemoizedCompareValuesWithDetailedDifferences"
  /\ UNCHANGED <<heap, argFirst, argSecond, argPath, argOptions, argSchema>>

MemoizedCalled ==
  pc \in {"MemoizedCompareArrays", "MemoizedCompareValuesWithConflicts",
          "MemoizedCompareValuesWithDetailedDifferences"}

\* The caller of a session chooses the arguments of its next memoized call.
NextMemoizedCall ==
  /\ MemoizedCalled
  /\ calls < MaxCalls
  /\ \E first \in MemoFirsts, second \in MemoSeconds, o \in MemoOptions :
       /\ argFirst' = first
       /\ argSecond' = second
       /\ argOptions' = o
  /\ pc' = "session"
  /\ UNCHANGED <<heap, argPath, argSchema, cache, calls, fnCalls, result>>

\* The calls of the entry points that validate their inputs first.
CallValidatedCompareArrays ==
  /\ pc = "ready.schemaValidation"
  /\ pc' = "schemaValidation.CompareArrays"
  /\ result' = ValidatedCompareArrays(heap, argFirst, argSecond, argOptions, argSchema)
  /\ UNCHANGED <<heap, argFirst, argSecond, argPath, argOptions, argSchema, cache, calls,
               fnCalls>>

CallValidatedCompareValuesWithConflicts ==
  /\ pc = "ready.schemaValidation"
  /\ pc' = "schemaValidation.CompareValuesWithConflicts"
  /\ result' = ValidatedCompareValuesWithConflicts(heap, argFirst, argSecond, argPath,
                                                   argOptions, argSchema)
  /\ UNCHANGED <<heap, argFirst, argSecond, argPath, argOptions, argSchema, cache, calls,
               fnCalls>>

CallValidatedCompareValuesWithDetailedDifferences ==
  /\ pc = "ready.schemaValidation"
  /\ pc' = "schemaValidation.CompareValuesWithDetailedDifferences"
  /\ result' = ValidatedCompareValuesWithDetailedDifferences(heap, argFirst, argSecond,
                                                             argPath, argOptions,
                                                             argSchema)
  /\ UNCHANGED <<heap, argFirst, argSecond, argPath, argOptions, argSchema, cache, calls,
               fnCalls>>

Next ==
  \/ CallCompareArrays
  \/ CallCompareValuesWithConflicts
  \/ CallCompareValuesWithDetailedDifferences
  \/ CallCompareProperties

Spec == Init /\ [][Next]_vars

\* The calls through the package's entry points.
NextIndex ==
  \/ CallIndexCompareArrays
  \/ CallIndexCompareValuesWithConflicts
  \/ CallIndexCompareValuesWithDetailedDifferences

SpecIndex == InitIndex /\ [][NextIndex]_vars

\* A session of memoized calls.
NextMemo ==
  \/ CallMemoizedCompareArrays
  \/ CallMemoizedCompareValuesWithConflicts
  \/ CallMemoizedCompareValuesWithDetailedDifferences
  \/ NextMemoizedCall

SpecMemo == InitMemo /\ [][NextMemo]_vars

\* The calls of the entry points that validate their inputs.
NextSchemas ==
  \/ CallValidatedCompareArrays
  \/ CallValidatedCompareValuesWithConflicts
  \/ CallValidatedCompareValuesWithDetailedDifferences

SpecSchemas == InitSchemas /\ [][NextSchemas]_vars

-----------------------------------------------------------------------------
(* Vocabulary of the properties: what it means for two inputs to have the   *)
(* same shape, to be structural copies or to be cyclic, said without the     *)
(* operations under test.                                                    *)

\* One of the three operations of the engine has been called and has ended.
Called ==
  pc \in {"CompareArrays", "CompareValuesWithConflicts",
          "CompareValuesWithDetailedDifferences"}

Range(seq) == {seq[k] : k \in 1..Len(seq)}

IsContainer(h, v) == IsRef(v) /\ h[v.n].kind \in {"arr", "obj"}

KeySet(h, v) == Range(ObjectKeys(h, v))

\* The position of the node id in a list of ancestors, or 0.
AncestorIndex(anc, id) ==
  IF \E k \in 1..Len(anc) : anc[k] = id
  THEN CHOOSE k \in 1..Len(anc) : anc[k] = id
  ELSE 0

\* a and b (below the ancestors ancA and ancB) have the same keys and
\* indices, leaves at the same places and back-references to the same
\* relative ancestor; the values of the leaves may differ.
RECURSIVE SameShape(_, _, _, _, _)
SameShape(h, a, b, ancA, ancB) ==
  IF ~IsContainer(h, a) \/ ~IsContainer(h, b)
  THEN ~IsContainer(h, a) /\ ~IsContainer(h, b)
  ELSE IF AncestorIndex(ancA, a.n) # 0 \/ AncestorIndex(ancB, b.n) # 0
  THEN AncestorIndex(ancA, a.n) = AncestorIndex(ancB, b.n)
  ELSE /\ h[a.n].kind = h[b.n].kind
       /\ KeySet(h, a) = KeySet(h, b)
       /\ \A key \in KeySet(h, a) :
            SameShape(h, GetProp(h, a, key), GetProp(h, b, key),
                      Append(ancA, a.n), Append(ancB, b.n))

\* Two leaves hold the same value: the same scalar (NaN is a copy of NaN),
\* Dates of the same time, RegExps of the same text.
LeafCopy(h, a, b) == IF IsRef(a) /\ IsRef(b) THEN h[a.n] = h[b.n] ELSE a = b

\* The path of the slot key of the container v that lies at path.
ChildPath(h, v, path, key) ==
  IF h[v.n].kind = "arr" THEN path \o <<"[">> \o key \o <<"]">>
  ELSE IF path = EmptyStr THEN key ELSE path \o <<".">> \o key

\* The paths of the leaves at which two inputs of the same shape differ.
RECURSIVE LeafDiffs(_, _, _, _, _)
LeafDiffs(h, a, b, path, anc) ==
  IF ~IsContainer(h, a) THEN IF LeafCopy(h, a, b) THEN {} ELSE {path}
  ELSE IF a.n \in anc THEN {}
  ELSE UNION {LeafDiffs(h, GetProp(h, a, key), GetProp(h, b, key),
                        ChildPath(h, a, path, key), anc \cup {a.n}) :
                key \in KeySet(h, a)}

StructuralCopy(h, a, b) ==
  SameShape(h, a, b, <<>>, <<>>) /\ LeafDiffs(h, a, b, EmptyStr, {}) = {}

\* Some slot below v holds the node target.
RECURSIVE Reaches(_, _, _, _)
Reaches(h, v, target, seen) ==
  /\ IsContainer(h, v)
  /\ \E key \in KeySet(h, v) :
       /\ IsContainer(h, GetProp(h, v, key))
       /\ \/ GetProp(h, v, key).n = target
          \/ /\ GetProp(h, v, key).n \notin seen
             /\ Reaches(h, GetProp(h, v, key), target,
                        seen \cup {GetProp(h, v, key).n})

\* v contains itself, directly or through a descendant.
SelfReferential(h, v) == Reaches(h, v, v.n, {v.n})

\* v or a container below it contains itself.
HasCycle(h, v) ==
  \/ SelfReferential(h, v)
  \/ \E id \in 1..Len(h) : Reaches(h, v, id, {v.n}) /\ SelfReferential(h, Ref(id))

HasBracket(p) == \E i \in 1..Len(p) : p[i] = "["

\* The part of a path before its first "[" (the path itself when it has none).
BeforeBracket(p) ==
  IF HasBracket(p)
  THEN SubSeq(p, 1, (CHOOSE i \in 1..Len(p) :
                       p[i] = "[" /\ \A j \in 1..(i - 1) : p[j] # "[") - 1)
  ELSE p

NoPathFilter == ~argOptions.pathFilter.on

\* CompareArrays is given two arrays.
ArraysToCompareArrays ==
  pc = "CompareArrays" => IsArray(heap, argFirst) /\ IsArray(heap, argSecond)

\* The paths the call reported: of its conflicts or of its differences.
ReportedPaths ==
  IF pc = "CompareValuesWithDetailedDifferences"
  THEN [k \in 1..Len(result.list) |-> result.list[k].path]
  ELSE result.list

\* The leaves at which the two inputs of the call differ.
DiffLeaves == LeafDiffs(heap, argFirst, argSecond, EmptyStr, {})

-----------------------------------------------------------------------------
(* C1 *)

\* An operation was called under the policy 'error', without a path filter,
\* on two different inputs that each contain themselves.
C1Case ==
  /\ Called
  /\ argOptions.circularReferences = "error"
  /\ NoPathFilter
  /\ argFirst # argSecond
  /\ SelfReferential(heap, argFirst)
  /\ SelfReferential(heap, argSecond)
  /\ ArraysToCompareArrays

\* C1 as stated: under the policy 'error' every call of the three operations
\* on two self-referential inputs raises a Cycle Fault and returns no result.
C1_FaultOnAnyCyclicPair ==
  C1Case => result.k = "throw" /\ result.list = <<>>

\* C1 amended: under the policy 'error' and without a path filter, a call of
\* the three operations on two different self-referential inputs of the same
\* shape (same keys and indices, back-references to the same relative
\* ancestor) raises a Cycle Fault and returns no result.
C1_FaultOnSameShape ==
  (C1Case /\ SameShape(heap, argFirst, argSecond, <<>>, <<>>))
    => result.k = "throw" /\ result.list = <<>>

\* A cycle through a child (o.b.p = o) on both sides was met during the
\* traversal and raised the fault at its path.
C1_Witness ==
  /\ C1Case
  /\ SameShape(heap, argFirst, argSecond, <<>>, <<>>)
  /\ pc = "CompareValuesWithDetailedDifferences"
  /\ result = ResThrow(<<"b", ".", "p">>)

-----------------------------------------------------------------------------
(* C2 *)

\* An operation was called under the policy 'ignore', without a path filter,
\* on two cyclic graphs of the same shape.
C2Case ==
  /\ Called
  /\ argOptions.circularReferences = "ignore"
  /\ NoPathFilter
  /\ HasCycle(heap, argFirst)
  /\ SameShape(heap, argFirst, argSecond, <<>>, <<>>)
  /\ ArraysToCompareArrays

\* C2 as stated: under the policy 'ignore' two structurally identical cyclic
\* graphs yield no difference (true from CompareArrays), and when one leaf
\* differs exactly the path of that leaf is reported.
C2_LeafPathReported ==
  C2Case =>
    /\ DiffLeaves = {} =>
         result = IF pc = "CompareArrays" THEN ResTrue ELSE ResList(<<>>)
    /\ (Cardinality(DiffLeaves) = 1 /\ pc # "CompareArrays") =>
         /\ result.k = "list"
         /\ \E p \in DiffLeaves : ReportedPaths = <<p>>

\* C2 amended: under the policy 'ignore' two structurally identical cyclic
\* graphs yield no difference (true from CompareArrays); when one leaf
\* differs, CompareValuesWithDetailedDifferences reports exactly the path of
\* that leaf, CompareValuesWithConflicts reports exactly that path cut before
\* its first "[", and CompareArrays returns false.
C2_LeafPathReportedUpToArray ==
  C2Case =>
    /\ DiffLeaves = {} =>
         result = IF pc = "CompareArrays" THEN ResTrue ELSE ResList(<<>>)
    /\ Cardinality(DiffLeaves) = 1 =>
         \E p \in DiffLeaves :
           CASE pc = "CompareArrays" -> result = ResFalse
             [] pc = "CompareValuesWithConflicts" ->
                  result = ResList(<<BeforeBracket(p)>>)
             [] OTHER -> result.k = "list" /\ ReportedPaths = <<p>>

\* Two graphs with a cycle through the child that differ in the leaf of the
\* child only: the one difference reported is at "b.c".
C2_Witness ==
  /\ C2Case
  /\ pc = "CompareValuesWithDetailedDifferences"
  /\ heap[3].vals[2] = Ref(1)
  /\ DiffLeaves = {<<"b", ".", "c">>}
  /\ ReportedPaths = <<<<"b", ".", "c">>>>

-----------------------------------------------------------------------------
(* C3 *)

\* C3 as stated: every call ends with a result or, under the policy 'error'
\* only, with a Cycle Fault; it never ends otherwise (the exhausted call
\* stack of a recursion that does not end).
C3_EndsWithResultOrFault ==
  Called =>
    \/ result.k \in {"true", "false", "list"}
    \/ result.k = "throw" /\ argOptions.circularReferences = "error"

-----------------------------------------------------------------------------
(* C4 *)

\* The paths the traversal produces for the call, before the adapter
\* post-processes them.
TraversalPaths ==
  LET r == handleDepthComparison(heap, argFirst, argSecond, argPath, argOptions,
                                 FALSE, FALSE, EmptyMap, EmptyMap)
  IN IF r.k = "list" THEN Range(r.list) ELSE {}

\* C4: no path returned by CompareValuesWithConflicts contains "[", and each
\* is the part before the first "[" of a path the traversal produced.
C4_NoBracketInConflicts ==
  (pc = "CompareValuesWithConflicts" /\ result.k = "list") =>
    \A p \in Range(result.list) :
      /\ ~HasBracket(p)
      /\ \E q \in TraversalPaths : p = BeforeBracket(q)

\* A difference inside the array at "c" was found at an index and is
\* reported as "c".
C4_Witness ==
  /\ pc = "CompareValuesWithConflicts"
  /\ result = ResList(<<KeyC>>)
  /\ \E q \in TraversalPaths : HasBracket(q) /\ BeforeBracket(q) = KeyC

-----------------------------------------------------------------------------
(* C5 *)

Defined(v) == v # Undefined

\* C5 as stated: in every entry returned by
\* CompareValuesWithDetailedDifferences, 'added' has an undefined oldValue
\* and a defined newValue, 'removed' the mirror, and 'changed' two defined
\* values that are unequal under the active strictness.
C5_EntryValuesDefined ==
  (pc = "CompareValuesWithDetailedDifferences" /\ result.k = "list") =>
    \A d \in Range(result.list) :
      /\ d.type = "added" => d.oldValue = Undefined /\ Defined(d.newValue)
      /\ d.type = "removed" => d.newValue = Undefined /\ Defined(d.oldValue)
      /\ d.type = "changed" =>
           /\ Defined(d.oldValue)
           /\ Defined(d.newValue)
           /\ ~areValuesEqual(heap, d.oldValue, d.newValue, argOptions.strict)

-----------------------------------------------------------------------------
(* C6 *)

\* An operation was called on two containers of the same shape of which
\* every slot holds NaN.
C6Case ==
  /\ Called
  /\ NoPathFilter
  /\ IsContainer(heap, argFirst)
  /\ IsContainer(heap, argSecond)
  /\ ArraysToCompareArrays
  /\ SameShape(heap, argFirst, argSecond, <<>>, <<>>)
  /\ Len(heap[argFirst.n].vals) > 0
  /\ \A k \in 1..Len(heap[argFirst.n].vals) :
       heap[argFirst.n].vals[k] = NaN /\ heap[argSecond.n].vals[k] = NaN

\* C6 as stated: an element or a property that is NaN on both sides is never
\* reported as a difference, whatever the value of strict.
C6_NaNEqualsNaN ==
  C6Case => result = IF pc = "CompareArrays" THEN ResTrue ELSE ResList(<<>>)

-----------------------------------------------------------------------------
(* C7 *)

\* C7 as stated: under the default options, CompareArrays([x], [y]) is true
\* and CompareValuesWithConflicts(x, y) is empty whenever x is acyclic and y
\* is a structural copy of x.
C7_CopiesCompareEqual ==
  (Called /\ argOptions = DefaultOptions /\ argPath = EmptyStr) =>
    /\ ( /\ pc = "CompareArrays"
         /\ IsArray(heap, argFirst) /\ IsArray(heap, argSecond)
         /\ ArrLength(heap, argFirst) = 1 /\ ArrLength(heap, argSecond) = 1
         /\ ~HasCycle(heap, argFirst)
         /\ StructuralCopy(heap, ArrGet(heap, argFirst, 0), ArrGet(heap, argSecond, 0)) )
       => result = ResTrue
    /\ ( /\ pc = "CompareValuesWithConflicts"
         /\ ~HasCycle(heap, argFirst)
         /\ StructuralCopy(heap, argFirst, argSecond) )
       => result = ResList(<<>>)

-----------------------------------------------------------------------------
(* C8 *)

\* C8: with the two inputs exchanged and the options kept,
\* CompareValuesWithConflicts ends the same way and is non-empty exactly
\* when it was, CompareArrays returns the same, and the non-strict Equality
\* Primitive gives the same answer for the inputs in either order.
C8_Symmetric ==
  /\ pc = "CompareValuesWithConflicts" =>
       LET swapped == CompareValuesWithConflicts(heap, argSecond, argFirst, argPath,
                                                 argOptions)
       IN /\ swapped.k = result.k
          /\ (swapped.list = <<>>) = (result.list = <<>>)
  /\ pc = "CompareArrays" =>
       CompareArrays(heap, argSecond, argFirst, argOptions).k = result.k
  /\ Called =>
       areValuesEqual(heap, argFirst, argSecond, FALSE)
         = areValuesEqual(heap, argSecond, argFirst, FALSE)

\* null against undefined in non-strict mode: no conflict in either order.
C8_Witness ==
  /\ pc = "CompareValuesWithConflicts"
  /\ ~argOptions.strict
  /\ IsContainer(heap, argFirst) /\ IsContainer(heap, argSecond)
  /\ heap[argFirst.n].vals = <<Null>>
  /\ heap[argSecond.n].vals = <<Undefined>>
  /\ heap[argFirst.n].keys = heap[argSecond.n].keys
  /\ result = ResList(<<>>)
  /\ CompareValuesWithConflicts(heap, argSecond, argFirst, argPath, argOptions)
       = ResList(<<>>)

-----------------------------------------------------------------------------
(* C9 *)

Strictly(strict) == [argOptions EXCEPT !.strict = strict]

\* C9: every path CompareValuesWithConflicts returns with strict:false it
\* also returns with strict:true and the options otherwise the same, and
\* CompareArrays returning true with strict:true returns true with
\* strict:false.
C9_LooseWithinStrict ==
  /\ pc = "CompareValuesWithConflicts" =>
       LET other == CompareValuesWithConflicts(heap, argFirst, argSecond, argPath,
                                               Strictly(~argOptions.strict))
           loose == IF argOptions.strict THEN other ELSE result
           tight == IF argOptions.strict THEN result ELSE other
       IN /\ loose.k = tight.k
          /\ Range(loose.list) \subseteq Range(tight.list)
  /\ pc = "CompareArrays" =>
       LET other == CompareArrays(heap, argFirst, argSecond,
                                  Strictly(~argOptions.strict))
           loose == IF argOptions.strict THEN other ELSE result
           tight == IF argOptions.strict THEN result ELSE other
       IN tight = ResTrue => loose = ResTrue

\* The string "1" against the number 1: a conflict with strict:true, none
\* with strict:false.
C9_Witness ==
  /\ pc = "CompareValuesWithConflicts"
  /\ argOptions.strict
  /\ IsContainer(heap, argFirst) /\ IsContainer(heap, argSecond)
  /\ heap[argFirst.n].vals = <<Str(<<"1">>)>>
  /\ heap[argSecond.n].vals = <<Num(1)>>
  /\ result = ResList(<<KeyA>>)
  /\ CompareValuesWithConflicts(heap, argFirst, argSecond, argPath, Strictly(FALSE))
       = ResList(<<>>)

-----------------------------------------------------------------------------
(* C10 *)

\* No array lies in or below v.
RECURSIVE ArrayFree(_, _, _)
ArrayFree(h, v, seen) ==
  \/ ~IsContainer(h, v)
  \/ /\ h[v.n].kind = "obj"
     /\ \A key \in KeySet(h, v) :
          \/ ~IsContainer(h, GetProp(h, v, key))
          \/ GetProp(h, v, key).n \in seen
          \/ ArrayFree(h, GetProp(h, v, key), seen \cup {GetProp(h, v, key).n})

\* The full paths of the leaves of v.
RECURSIVE LeafPaths(_, _, _, _)
LeafPaths(h, v, path, anc) ==
  IF ~IsContainer(h, v) THEN {path}
  ELSE IF v.n \in anc THEN {}
  ELSE UNION {LeafPaths(h, GetProp(h, v, key), ChildPath(h, v, path, key),
                        anc \cup {v.n}) : key \in KeySet(h, v)}

\* CompareValuesWithConflicts for the inputs of the call under the pattern
\* list of the call in the given mode, and without a filter.
ConflictsInMode(mode) ==
  Range(CompareValuesWithConflicts(heap, argFirst, argSecond, argPath,
          [argOptions EXCEPT !.pathFilter.mode = mode]).list)

ConflictsUnfiltered ==
  Range(CompareValuesWithConflicts(heap, argFirst, argSecond, argPath,
          [argOptions EXCEPT !.pathFilter = NoFilter]).list)

\* CompareValuesWithConflicts was called on two array-free nested mappings
\* with a non-empty list of patterns, each the full path of a leaf.
C10Case ==
  /\ pc = "CompareValuesWithConflicts"
  /\ result.k = "list"
  /\ argPath = EmptyStr
  /\ isObject(heap, argFirst) /\ isObject(heap, argSecond)
  /\ ArrayFree(heap, argFirst, {argFirst.n})
  /\ ArrayFree(heap, argSecond, {argSecond.n})
  /\ argOptions.pathFilter.on
  /\ Len(argOptions.pathFilter.patterns) > 0
  /\ Range(argOptions.pathFilter.patterns)
       \subseteq LeafPaths(heap, argFirst, EmptyStr, {})
                 \cup LeafPaths(heap, argSecond, EmptyStr, {})

\* C10 as stated: the paths returned in exclude mode and those returned in
\* include mode are disjoint, and together they are the paths returned
\* without a filter.
C10_ExcludeIncludePartition ==
  C10Case =>
    /\ ConflictsInMode("exclude") \cap ConflictsInMode("include") = {}
    /\ ConflictsInMode("exclude") \cup ConflictsInMode("include") = ConflictsUnfiltered

-----------------------------------------------------------------------------
\* C11: memoization is transparent: whatever calls were made before it,
\* each call of a memoized operation returns (or throws) what the
\* unmemoized operation returns (or throws) for the arguments of that call.
C11_MemoizationTransparent ==
  /\ pc = "MemoizedCompareArrays" =>
       result = CompareArrays(heap, argFirst, argSecond, argOptions)
  /\ pc = "MemoizedCompareValuesWithConflicts" =>
       result = CompareValuesWithConflicts(heap, argFirst, argSecond, argPath, argOptions)
  /\ pc = "MemoizedCompareValuesWithDetailedDifferences" =>
       result = CompareValuesWithDetailedDifferences(heap, argFirst, argSecond, argPath,
                                                     argOptions)

-----------------------------------------------------------------------------
\* C12: CompareProperties(a, b) partitions the union of the own keys of a
\* and b: common holds exactly the keys present in both, differences exactly
\* the keys present in one of them only, no key is listed twice or in both
\* lists; the values play no part.
C12Case ==
  /\ pc = "CompareProperties"
  /\ IsContainer(heap, argFirst)
  /\ IsContainer(heap, argSecond)

-----------------------------------------------------------------------------
\* C13: when either root input is absent (null or undefined), the entry
\* points CompareValuesWithConflicts and CompareValuesWithDetailedDifferences
\* return null (they do not throw and report no difference), and
\* CompareArrays returns false.
AbsentRoot == argFirst \in {Null, Undefined} \/ argSecond \in {Null, Undefined}

-----------------------------------------------------------------------------
\* C14: under the default options, for acyclic inputs built from scalars
\* other than NaN, arrays and plain objects, CompareArrays returns true if
\* and only if both inputs are arrays and are deeply equal, and false
\* otherwise (an input that is not an array, or different lengths).

\* v is built from scalars other than NaN, arrays and plain objects; asked
\* of values without a cycle.
RECURSIVE PlainBelow(_, _)
PlainBelow(h, v) ==
  IF ~IsRef(v) THEN v # NaN
  ELSE /\ h[v.n].kind \in {"arr", "obj"}
       /\ \A key \in KeySet(h, v) : PlainBelow(h, GetProp(h, v, key))

PlainAcyclic(h, v) == (IsRef(v) => ~HasCycle(h, v)) /\ PlainBelow(h, v)

\* Deep equality of two plain acyclic values: strictly equal scalars, arrays
\* of the same length whose elements are deeply equal position by position,
\* objects with the same key set whose values are deeply equal key by key.
RECURSIVE DeepEqual(_, _, _)
DeepEqual(h, a, b) ==
  IF ~IsRef(a) \/ ~IsRef(b) THEN a = b
  ELSE /\ h[a.n].kind = h[b.n].kind
       /\ KeySet(h, a) = KeySet(h, b)
       /\ \A key \in KeySet(h, a) :
            DeepEqual(h, GetProp(h, a, key), GetProp(h, b, key))

C14Case ==
  /\ pc = "CompareArrays"
  /\ argOptions = DefaultOptions
  /\ PlainAcyclic(heap, argFirst)
  /\ PlainAcyclic(heap, argSecond)

C14_TrueIffDeeplyEqualArrays ==
  C14Case =>
    result = IF /\ IsArray(heap, argFirst)
                /\ IsArray(heap, argSecond)
                /\ DeepEqual(heap, argFirst, argSecond)
             THEN ResTrue ELSE ResFalse

\* Two different arrays [1, {d: 1, e: 1}] that are deeply equal were
\* compared and found equal.
C14_Witness ==
  /\ C14Case
  /\ IsArray(heap, argFirst)
  /\ IsArray(heap, argSecond)
  /\ argFirst # argSecond
  /\ \E i \in 0..(ArrLength(heap, argFirst) - 1) :
       /\ isObject(heap, ArrGet(heap, argFirst, i))
       /\ ArrGet(heap, argFirst, i) # ArrGet(heap, argSecond, i)
  /\ result = ResTrue

-----------------------------------------------------------------------------
\* C15: in CompareValuesWithDetailedDifferences, a property present on both
\* sides that holds arrays of different lengths, and whose path the active
\* filter compares, gets exactly one entry: at the property's path, of type
\* 'changed', with the two whole arrays as oldValue and newValue, and no
\* entry for an index; when the lengths are equal, there is one entry for
\* each differing index or nested property of an element.

\* The positions in the result of the entries at the path prop or at an
\* index below it.
EntriesUnder(prop) ==
  {k \in 1..Len(result.list) :
     \/ result.list[k].path = prop
     \/ StartsWith(result.list[k].path, prop \o <<"[">>)}

PathCompared(path) == shouldComparePath(path, argOptions.pathFilter)

\* Two objects were compared that both hold an array under key, at a path
\* that the filter compares.
C15Case(key) ==
  /\ pc = "CompareValuesWithDetailedDifferences"
  /\ result.k = "list"
  /\ isObject(heap, argFirst) /\ heap[argFirst.n].kind = "obj"
  /\ isObject(heap, argSecond) /\ heap[argSecond.n].kind = "obj"
  /\ key \in KeySet(heap, argFirst) \cap KeySet(heap, argSecond)
  /\ IsArray(heap, GetProp(heap, argFirst, key))
  /\ IsArray(heap, GetProp(heap, argSecond, key))
  /\ PathCompared(PropPath(argPath, key))

C15Lengths(key) ==
  <<ArrLength(heap, GetProp(heap, argFirst, key)),
    ArrLength(heap, GetProp(heap, argSecond, key))>>

C15_ArrayPropertyEntries ==
  \A key \in {KeyA, KeyB, KeyC, KeyD} :
    C15Case(key) =>
      LET prop == PropPath(argPath, key)
          a == GetProp(heap, argFirst, key)
          b == GetProp(heap, argSecond, key)
      IN IF C15Lengths(key)[1] # C15Lengths(key)[2]
         THEN /\ Cardinality(EntriesUnder(prop)) = 1
              /\ \A k \in EntriesUnder(prop) :
                   result.list[k] = Difference(prop, "changed", a, b)
         ELSE SameShape(heap, a, b, <<>>, <<>>) =>
                LET expected == {q \in LeafDiffs(heap, a, b, prop, {}) : PathCompared(q)}
                IN /\ {result.list[k].path : k \in EntriesUnder(prop)} = expected
                   /\ Cardinality(EntriesUnder(prop)) = Cardinality(expected)
                   /\ \A k \in EntriesUnder(prop) : result.list[k].type = "changed"

-----------------------------------------------------------------------------
\* C16: when two mappings are compared, every unfiltered key present on one
\* side only gives exactly one result, at the child path (the parent path,
\* '.', the key; the key alone at the root), and nothing below it: in
\* detailed mode an entry of type 'added' with the second side's value as
\* newValue when the first mapping lacks the key, of type 'removed' with
\* the first side's value as oldValue when the second lacks it; in
\* path-list mode the child path itself.

PlainObject(h, v) == IsRef(v) /\ h[v.n].kind = "obj"

OneSidedKeys(h, a, b) ==
  (KeySet(h, a) \cup KeySet(h, b)) \ (KeySet(h, a) \cap KeySet(h, b))

\* The entry the claim expects for the one-sided key at the path child.
OneSidedEntry(h, a, b, key, child) ==
  IF key \in KeySet(h, a)
  THEN Difference(child, "removed", GetProp(h, a, key), Undefined)
  ELSE Difference(child, "added", Undefined, GetProp(h, b, key))

\* The positions in the result of what is reported at path, and strictly
\* below it.
ResultsAt(path) == {k \in 1..Len(ReportedPaths) : ReportedPaths[k] = path}

ResultsBelow(path) ==
  {k \in 1..Len(ReportedPaths) :
     \/ StartsWith(ReportedPaths[k], path \o <<".">>)
     \/ StartsWith(ReportedPaths[k], path \o <<"[">>)}

\* The path at which path-list mode reports the child path: the child path
\* itself, or (cut) its part before the first '['.
PathListPath(child, cut) == IF cut THEN BeforeBracket(child) ELSE child

\* The claim for the mappings a and b that lie at the path parent.
OneSidedKeysReported(a, b, parent, cut) ==
  \A key \in OneSidedKeys(heap, a, b) :
    PathCompared(PropPath(parent, key)) =>
      /\ ResultsBelow(PropPath(parent, key)) = {}
      /\ pc = "CompareValuesWithConflicts" =>
           Cardinality(ResultsAt(PathListPath(PropPath(parent, key), cut))) = 1
      /\ pc = "CompareValuesWithDetailedDifferences" =>
           /\ Cardinality(ResultsAt(PropPath(parent, key))) = 1
           /\ \A k \in ResultsAt(PropPath(parent, key)) :
                result.list[k] = OneSidedEntry(heap, a, b, key, PropPath(parent, key))

C16Case ==
  /\ pc \in {"CompareValuesWithConflicts", "CompareValuesWithDetailedDifferences"}
  /\ result.k = "list"
  /\ IsContainer(heap, argFirst)
  /\ IsContainer(heap, argSecond)
  /\ heap[argFirst.n].kind = heap[argSecond.n].kind
  /\ argFirst # argSecond

\* The keys and indices under which both roots hold a plain object that the
\* traversal compares.
NestedMappingKeys ==
  {key \in KeySet(heap, argFirst) \cap KeySet(heap, argSecond) :
     /\ PlainObject(heap, GetProp(heap, argFirst, key))
     /\ PlainObject(heap, GetProp(heap, argSecond, key))
     /\ GetProp(heap, argFirst, key) # GetProp(heap, argSecond, key)
     /\ PathCompared(ChildPath(heap, argFirst, argPath, key))}

OneSidedKeysOfCall(cut) ==
  /\ PlainObject(heap, argFirst) => OneSidedKeysReported(argFirst, argSecond, argPath, cut)
  /\ (~HasCycle(heap, argFirst) /\ ~HasCycle(heap, argSecond)
        /\ KeySet(heap, argFirst) = KeySet(heap, argSecond)) =>
       \A key \in NestedMappingKeys :
         OneSidedKeysReported(GetProp(heap, argFirst, key), GetProp(heap, argSecond, key),
                              ChildPath(heap, argFirst, argPath, key), cut)

-----------------------------------------------------------------------------
\* C17: in exclude mode with the single leading-dot pattern '.name', a
\* difference is suppressed if and only if one of the key segments of its
\* path is exactly 'name' (at any depth, also directly after or before an
\* array index); a path without such a segment is compared and reported.

\* The key segments of a path: its maximal runs of characters outside the
\* index brackets, separated by '.', '[' and ']'.
RECURSIVE KeySegments(_, _, _)
KeySegments(path, cur, inIndex) ==
  IF Len(path) = 0 THEN (IF cur = EmptyStr THEN {} ELSE {cur})
  ELSE IF path[1] = "[" THEN
         (IF cur = EmptyStr THEN {} ELSE {cur}) \cup KeySegments(Tail(path), EmptyStr, TRUE)
  ELSE IF path[1] = "]" THEN KeySegments(Tail(path), EmptyStr, FALSE)
  ELSE IF inIndex THEN KeySegments(Tail(path), EmptyStr, TRUE)
  ELSE IF path[1] = "." THEN
         (IF cur = EmptyStr THEN {} ELSE {cur}) \cup KeySegments(Tail(path), EmptyStr, FALSE)
  ELSE KeySegments(Tail(path), Append(cur, path[1]), FALSE)

\* The field name of the single leading-dot pattern of the call's filter.
DotFieldName == SubstringFrom(argOptions.pathFilter.patterns[1], 1)

C17Case ==
  /\ pc \in {"CompareValuesWithConflicts", "CompareValuesWithDetailedDifferences"}
  /\ result.k = "list"
  /\ argOptions.pathFilter.on
  /\ argOptions.pathFilter.mode = "exclude"
  /\ Len(argOptions.pathFilter.patterns) = 1
  /\ StartsWith(argOptions.pathFilter.patterns[1], <<".">>)
  /\ argPath = EmptyStr
  /\ SameShape(heap, argFirst, argSecond, <<>>, <<>>)
  /\ ~HasCycle(heap, argFirst)

\* The differing leaves whose path has no key segment equal to the field name.
UnsuppressedLeaves ==
  {q \in DiffLeaves : DotFieldName \notin KeySegments(q, EmptyStr, FALSE)}

C17_SuppressedIffSegmentIsName ==
  C17Case =>
    Range(ReportedPaths) =
      IF pc = "CompareValuesWithDetailedDifferences" THEN UnsuppressedLeaves
      ELSE {BeforeBracket(q) : q \in UnsuppressedLeaves}

-----------------------------------------------------------------------------
\* C18: a pathFilter whose pattern list is empty is the same as no filter:
\* in both modes CompareArrays, CompareValuesWithConflicts and
\* CompareValuesWithDetailedDifferences return the result (entries, kinds,
\* fault) they return for the same inputs when pathFilter is omitted.

EmptyPatternList ==
  argOptions.pathFilter.on /\ Len(argOptions.pathFilter.patterns) = 0

\* The result of the operation of this state for the same inputs without
\* the pathFilter option.
ResultWithoutFilter ==
  LET o == [argOptions EXCEPT !.pathFilter = NoFilter]
  IN CASE pc = "CompareArrays" -> CompareArrays(heap, argFirst, argSecond, o)
       [] pc = "CompareValuesWithConflicts" ->
            CompareValuesWithConflicts(heap, argFirst, argSecond, argPath, o)
       [] OTHER ->
            CompareValuesWithDetailedDifferences(heap, argFirst, argSecond, argPath, o)

C18_EmptyPatternListIsNoFilter ==
  (Called /\ EmptyPatternList) => result = ResultWithoutFilter

-----------------------------------------------------------------------------
\* C19: with throwOnValidationFailure true, a Validation Fault that carries
\* the structured result is raised if and only if at least one side is
\* reported invalid (a null or undefined side included), and it is raised
\* before any traversal: such a call produces no comparison result and no
\* Cycle Fault.

ValidatedCalled ==
  pc \in {"schemaValidation.CompareArrays",
          "schemaValidation.CompareValuesWithConflicts",
          "schemaValidation.CompareValuesWithDetailedDifferences"}

\* What the validation reports of the two roots, independent of the throw
\* option: of the roots themselves, or of the two arrays held as 'items'
\* when CompareArrays is called on two arrays.
ValidationReport ==
  LET quiet == [argSchema EXCEPT !.throwOnValidationFailure = Bool(FALSE)]
      ofArrays == /\ pc = "schemaValidation.CompareArrays"
                  /\ IsArray(heap, argFirst) /\ IsArray(heap, argSecond)
      h == IF ofArrays
           THEN heap \o <<ObjNode(<<ItemsKey>>, <<argFirst>>),
                          ObjNode(<<ItemsKey>>, <<argSecond>>)>>
           ELSE heap
  IN ValidateObjectsAgainstSchemas(h,
       IF ofArrays THEN Ref(Len(heap) + 1) ELSE argFirst,
       IF ofArrays THEN Ref(Len(heap) + 2) ELSE argSecond,
       IF ofArrays
       THEN [quiet EXCEPT !.first = WrappedSchema(argSchema.first),
                          !.second = WrappedSchema(argSchema.second)]
       ELSE quiet).validationResult

ReportedInvalid ==
  ~ValidationReport.firstObjectValid \/ ~ValidationReport.secondObjectValid

ThrowOnFailure == argSchema.throwOnValidationFailure = Bool(TRUE)

\* The sides of the call are ones the entry point is declared for: any
\* value, but for CompareArrays an array or a missing value.
DeclaredSides ==
  pc = "schemaValidation.CompareArrays" =>
    \A v \in {argFirst, argSecond} : IsArray(heap, v) \/ v \in {Null, Undefined}

C19_ValidationFaultIffInvalid ==
  (ValidatedCalled /\ ThrowOnFailure /\ DeclaredSides) =>
    /\ result.k = "validation" <=> ReportedInvalid
    /\ result.k = "validation" => result.list = <<ValidationReport>>

-----------------------------------------------------------------------------
\* C20: with throwOnValidationFailure false or unset, whatever the schemas
\* and whether or not the inputs satisfy them, each entry point returns
\* exactly what it returns for the same inputs and options without
\* schemaValidation.

ResultWithoutSchema ==
  CASE pc = "schemaValidation.CompareArrays" ->
         ValidatedCompareArrays(heap, argFirst, argSecond, argOptions, NoSchema)
    [] pc = "schemaValidation.CompareValuesWithConflicts" ->
         ValidatedCompareValuesWithConflicts(heap, argFirst, argSecond, argPath,
                                             argOptions, NoSchema)
    [] OTHER ->
         ValidatedCompareValuesWithDetailedDifferences(heap, argFirst, argSecond,
                                                       argPath, argOptions, NoSchema)

C20_SchemaLeavesResultAlone ==
  (ValidatedCalled /\ ~ThrowOnFailure) => result = ResultWithoutSchema

\* A call whose schemas a side fails and whose result is a list of
\* differences.
C20_Witness ==
  /\ ValidatedCalled
  /\ ~ThrowOnFailure
  /\ ToBoolean(argFirst) /\ ToBoolean(argSecond)
  /\ ReportedInvalid
  /\ argSchema.first.given
  /\ result.k = "list"
  /\ result.list # <<>>

-----------------------------------------------------------------------------
\* C21: under the policy 'ignore', a pair of containers of which at least
\* one is already in its ledger is treated as equal only if both are in
\* their ledgers and were recorded at the same path; if only one was
\* visited, or both were visited but recorded at different paths, exactly
\* one difference is reported at the current path.

\* The paths at which the lock-step walk of a and b below the ancestors ancA
\* and ancB (the containers of the ledgers in the order they were entered:
\* the k-th of either side was recorded at the same path) is to report a
\* difference: at a pair met again, unless both sides were recorded at the
\* same path; at leaves that differ, at values of different kinds, at arrays
\* of different lengths and at keys of one side.
RECURSIVE LedgerDiffs(_, _, _, _, _, _)
LedgerDiffs(h, a, b, path, ancA, ancB) ==
  IF ~IsContainer(h, a) \/ ~IsContainer(h, b)
  THEN IF LeafCopy(h, a, b) THEN {} ELSE {path}
  ELSE IF h[a.n].kind # h[b.n].kind THEN {path}
  ELSE IF AncestorIndex(ancA, a.n) # 0 \/ AncestorIndex(ancB, b.n) # 0
  THEN IF AncestorIndex(ancA, a.n) = AncestorIndex(ancB, b.n) THEN {} ELSE {path}
  ELSE IF h[a.n].kind = "arr" /\ ArrLength(h, a) # ArrLength(h, b) THEN {path}
  ELSE UNION {IF key \in KeySet(h, a) /\ key \in KeySet(h, b)
              THEN LedgerDiffs(h, GetProp(h, a, key), GetProp(h, b, key),
                               ChildPath(h, a, path, key),
                               Append(ancA, a.n), Append(ancB, b.n))
              ELSE {ChildPath(h, a, path, key)} :
                key \in KeySet(h, a) \cup KeySet(h, b)}

\* The paths at which that walk meets a pair of containers of the same kind
\* of which at least one is in its ledger.
RECURSIVE RevisitPaths(_, _, _, _, _, _)
RevisitPaths(h, a, b, path, ancA, ancB) ==
  IF ~IsContainer(h, a) \/ ~IsContainer(h, b) THEN {}
  ELSE IF h[a.n].kind # h[b.n].kind THEN {}
  ELSE IF AncestorIndex(ancA, a.n) # 0 \/ AncestorIndex(ancB, b.n) # 0 THEN {path}
  ELSE IF h[a.n].kind = "arr" /\ ArrLength(h, a) # ArrLength(h, b) THEN {}
  ELSE UNION {RevisitPaths(h, GetProp(h, a, key), GetProp(h, b, key),
                           ChildPath(h, a, path, key),
                           Append(ancA, a.n), Append(ancB, b.n)) :
                key \in KeySet(h, a) \cap KeySet(h, b)}

C21Case ==
  /\ pc \in {"CompareValuesWithConflicts", "CompareValuesWithDetailedDifferences"}
  /\ argOptions.circularReferences = "ignore"
  /\ NoPathFilter
  /\ argPath = EmptyStr
  /\ argFirst # argSecond
  /\ RevisitPaths(heap, argFirst, argSecond, EmptyStr, <<>>, <<>>) # {}

C21_RevisitEqualOnlyAtSamePath ==
  C21Case =>
    /\ result.k = "list"
    /\ Range(ReportedPaths) =
         IF pc = "CompareValuesWithDetailedDifferences"
         THEN LedgerDiffs(heap, argFirst, argSecond, EmptyStr, <<>>, <<>>)
         ELSE {BeforeBracket(q) :
                 q \in LedgerDiffs(heap, argFirst, argSecond, EmptyStr, <<>>, <<>>)}

-----------------------------------------------------------------------------
\* C22: the ledger handed to a recursive call holds exactly the containers on
\* the path from the root to the current position (it is copied at each
\* descent and never shared between siblings); so for acyclic inputs in
\* which one sub-object is shared between sibling properties or sibling
\* elements, no call raises a Cycle Fault under the policy 'error', and under
\* either policy the sharing is no difference: inputs that are structural
\* copies of each other are reported equal.

\* Two slots of the container v hold the same container.
SharedBetweenSiblings(h, v) ==
  /\ IsContainer(h, v)
  /\ \E k1 \in KeySet(h, v), k2 \in KeySet(h, v) :
       /\ k1 # k2
       /\ IsContainer(h, GetProp(h, v, k1))
       /\ GetProp(h, v, k1) = GetProp(h, v, k2)

\* An operation was called on two different acyclic inputs of which one
\* holds a container under two sibling properties or elements.
C22Case ==
  /\ Called
  /\ NoPathFilter
  /\ argFirst # argSecond
  /\ ArraysToCompareArrays
  /\ ~HasCycle(heap, argFirst)
  /\ ~HasCycle(heap, argSecond)
  /\ SharedBetweenSiblings(heap, argFirst) \/ SharedBetweenSiblings(heap, argSecond)

NoDifferenceReported ==
  IF pc = "CompareArrays" THEN result = ResTrue ELSE result = ResList(<<>>)

C22_SharedSiblingsAreNoCycle ==
  C22Case =>
    /\ result.k \notin {"throw", "overflow"}
    /\ StructuralCopy(heap, argFirst, argSecond) => NoDifferenceReported

\* Under the policy 'error' the object {a: s, b: s}, with s = {c: 1} held
\* under both keys, was compared with a structural copy of it that shares
\* its own sub-object, and found equal.
C22_Witness ==
  /\ C22Case
  /\ argOptions.circularReferences = "error"
  /\ pc = "CompareValuesWithDetailedDifferences"
  /\ isObject(heap, argFirst) /\ ~IsArray(heap, argFirst)
  /\ SharedBetweenSiblings(heap, argFirst)
  /\ SharedBetweenSiblings(heap, argSecond)
  /\ StructuralCopy(heap, argFirst, argSecond)
  /\ result = ResList(<<>>)

-----------------------------------------------------------------------------
\* C23: when the two values at a path have different classifications among
\* scalar, temporal, pattern matcher, sequence and mapping, the strict
\* comparison reports exactly one difference of kind 'changed' at that path,
\* both when the values are the values of a property and when they are
\* elements of an array.

Classification(h, v) ==
  IF ~IsRef(v) THEN "scalar"
  ELSE CASE h[v.n].kind = "date" -> "temporal"
         [] h[v.n].kind = "regexp" -> "pattern-matcher"
         [] h[v.n].kind = "arr" -> "sequence"
         [] OTHER -> "mapping"

\* The two roots are objects with the one key a, or arrays of one element.
OneSlotRoots ==
  /\ IsContainer(heap, argFirst)
  /\ IsContainer(heap, argSecond)
  /\ argFirst # argSecond
  /\ heap[argFirst.n].kind = heap[argSecond.n].kind
  /\ \/ ObjectKeys(heap, argFirst) = <<KeyA>> /\ ObjectKeys(heap, argSecond) = <<KeyA>>
     \/ IsArray(heap, argFirst) /\ ArrLength(heap, argFirst) = 1
                               /\ ArrLength(heap, argSecond) = 1

SlotKey == IF IsArray(heap, argFirst) THEN <<"0">> ELSE KeyA
SlotOfFirst == GetProp(heap, argFirst, SlotKey)
SlotOfSecond == GetProp(heap, argSecond, SlotKey)
SlotPath == ChildPath(heap, argFirst, EmptyStr, SlotKey)

\* A strict CompareValuesWithDetailedDifferences was called on two roots
\* whose one slot holds values of different classifications.
C23Case ==
  /\ pc = "CompareValuesWithDetailedDifferences"
  /\ argOptions.strict
  /\ NoPathFilter
  /\ argPath = EmptyStr
  /\ OneSlotRoots
  /\ Classification(heap, SlotOfFirst) # Classification(heap, SlotOfSecond)

C23_OneChangedAtMismatch ==
  C23Case =>
    result = ResList(<<Difference(SlotPath, "changed", SlotOfFirst, SlotOfSecond)>>)

-----------------------------------------------------------------------------
\* C24: with no path filter, the list CompareValuesWithConflicts returns has
\* no duplicates and, as a set, is the set of the parts before the first '['
\* of the paths of the entries CompareValuesWithDetailedDifferences returns
\* for the same inputs; for two arrays, CompareArrays returns true exactly
\* when that set is empty.

\* What CompareValuesWithDetailedDifferences returns for the inputs of the
\* call.
DetailedOfCall ==
  CompareValuesWithDetailedDifferences(heap, argFirst, argSecond, argPath, argOptions)

DetailedPathsCut ==
  {BeforeBracket(DetailedOfCall.list[k].path) : k \in 1..Len(DetailedOfCall.list)}

NoDuplicates(list) ==
  \A i \in 1..Len(list), j \in 1..Len(list) : list[i] = list[j] => i = j

C24Case == NoPathFilter /\ DetailedOfCall.k = "list"

C24_ConflictsAreDetailedPathsCut ==
  C24Case =>
    /\ pc = "CompareValuesWithConflicts" =>
         /\ result.k = "list"
         /\ NoDuplicates(result.list)
         /\ Range(result.list) = DetailedPathsCut
    /\ (pc = "CompareArrays" /\ IsArray(heap, argFirst) /\ IsArray(heap, argSecond)) =>
         (result = ResTrue <=> DetailedPathsCut = {})

\* CompareValuesWithConflicts was called on inputs that differ at several
\* elements of one array property, and reported the property once.
C24_Witness ==
  /\ C24Case
  /\ pc = "CompareValuesWithConflicts"
  /\ argPath = EmptyStr
  /\ \E i \in 1..Len(DetailedOfCall.list), j \in 1..Len(DetailedOfCall.list) :
       /\ i # j
       /\ HasBracket(DetailedOfCall.list[i].path)
       /\ DetailedOfCall.list[i].path # DetailedOfCall.list[j].path
       /\ BeforeBracket(DetailedOfCall.list[i].path) # EmptyStr
       /\ BeforeBracket(DetailedOfCall.list[i].path)
            = BeforeBracket(DetailedOfCall.list[j].path)
  /\ Len(result.list) = Cardinality(DetailedPathsCut)

-----------------------------------------------------------------------------
\* C25: in exclude mode (or with the mode unset) the entries
\* CompareValuesWithDetailedDifferences returns are exactly the entries of
\* the result without a filter whose path the Path Filter Policy does not
\* exclude, in the same order; entries whose path matches no pattern are all
\* kept, the entry at the root path '' included.

\* What the call returns for the same inputs without a path filter.
UnfilteredOfCall ==
  CompareValuesWithDetailedDifferences(heap, argFirst, argSecond, argPath,
                                       [argOptions EXCEPT !.pathFilter = NoFilter])

NotExcluded(diff) == shouldComparePath(diff.path, argOptions.pathFilter)

C25Case ==
  /\ pc = "CompareValuesWithDetailedDifferences"
  /\ argOptions.pathFilter.on
  /\ argOptions.pathFilter.mode \in {"exclude", "unset"}
  /\ UnfilteredOfCall.k = "list"

C25_ExcludeKeepsTheRest ==
  C25Case => result = ResList(SelectSeq(UnfilteredOfCall.list, NotExcluded))

-----------------------------------------------------------------------------
\* C26: in include mode every entry CompareValuesWithDetailedDifferences
\* returns has a path that the Path Filter Policy lets compare
\* (shouldCompare(path, filter) is true); a difference at an ancestor of an
\* included path (a scalar on one side, a mapping on the other) is never
\* reported.

C26Case ==
  /\ pc = "CompareValuesWithDetailedDifferences"
  /\ argOptions.pathFilter.on
  /\ argOptions.pathFilter.mode = "include"
  /\ result.k = "list"

C26_IncludeReportsIncludedPathsOnly ==
  C26Case =>
    \A k \in 1..Len(result.list) :
      shouldComparePath(result.list[k].path, argOptions.pathFilter)

-----------------------------------------------------------------------------
\* C27: a leading-dot pattern '.name' catches the field at any nesting depth
\* in include mode too: with the one pattern '.name' in include mode, a
\* property called 'name' that differs between the two inputs is reported by
\* CompareValuesWithConflicts and by CompareValuesWithDetailedDifferences,
\* whether it sits at the root or below mappings whose own names match no
\* pattern.

C27Case ==
  /\ pc \in {"CompareValuesWithConflicts", "CompareValuesWithDetailedDifferences"}
  /\ argOptions.pathFilter.on
  /\ argOptions.pathFilter.mode = "include"
  /\ Len(argOptions.pathFilter.patterns) = 1
  /\ StartsWith(argOptions.pathFilter.patterns[1], <<".">>)
  /\ argPath = EmptyStr
  /\ SameShape(heap, argFirst, argSecond, <<>>, <<>>)
  /\ ~HasCycle(heap, argFirst)

\* The differing leaves that are the property 'name' of the root or of a
\* mapping reached through mappings only.
NamedLeaves ==
  {q \in DiffLeaves :
     /\ ~HasBracket(q)
     /\ q = DotFieldName \/ EndsWith(q, <<".">> \o DotFieldName)}

C27_DotNameIncludedAtAnyDepth ==
  C27Case => result.k = "list" /\ NamedLeaves \subseteq Range(ReportedPaths)

-----------------------------------------------------------------------------
\* C28: paths denote traversal positions: with an empty start path, for
\* every entry CompareValuesWithDetailedDifferences returns, following its
\* path from the first root ('.'-separated keys, '[i]' indices) reaches its
\* oldValue and following it from the second root reaches its newValue (the
\* position being absent on the first side for 'added', on the second side
\* for 'removed'), and no two entries of one result have the same path.

\* What following a path finds where a position does not exist.
Absent == [t |-> "absent", n |-> 0, s |-> EmptyStr]

\* The slot key of v, or Absent when v is no container or has no such slot.
SlotAt(h, v, key) ==
  IF v = Absent \/ ~IsContainer(h, v) THEN Absent
  ELSE IF \E k \in 1..Len(ObjectKeys(h, v)) : ObjectKeys(h, v)[k] = key
  THEN GetProp(h, v, key)
  ELSE Absent

\* The length of the first step of a path: up to the next '.' or '[', or,
\* for an index, up to its ']'.
FirstStepLen(path) ==
  IF path[1] = "["
  THEN CHOOSE i \in 1..Len(path) : path[i] = "]" /\ \A j \in 1..(i - 1) : path[j] # "]"
  ELSE IF \E i \in 1..Len(path) : path[i] \in {".", "["}
  THEN (CHOOSE i \in 1..Len(path) :
          path[i] \in {".", "["} /\ \A j \in 1..(i - 1) : path[j] \notin {".", "["}) - 1
  ELSE Len(path)

\* The value at the position path below v.
RECURSIVE FollowPath(_, _, _)
FollowPath(h, v, path) ==
  IF path = EmptyStr THEN v
  ELSE IF path[1] = "[" /\ ~(\E i \in 1..Len(path) : path[i] = "]") THEN Absent
  ELSE LET n == FirstStepLen(path)
           key == IF path[1] = "[" THEN SubSeq(path, 2, n - 1) ELSE SubSeq(path, 1, n)
           rest == SubstringFrom(path, n)
       IN FollowPath(h, SlotAt(h, v, key),
                     IF rest # EmptyStr /\ rest[1] = "." THEN Tail(rest) ELSE rest)

C28Case ==
  /\ pc = "CompareValuesWithDetailedDifferences"
  /\ argPath = EmptyStr
  /\ result.k = "list"

\* The entry lies where its path says, with the values found there.
EntryAtItsPosition(diff) ==
  LET old == FollowPath(heap, argFirst, diff.path)
      new == FollowPath(heap, argSecond, diff.path)
  IN CASE diff.type = "added" -> old = Absent /\ new = diff.newValue
       [] diff.type = "removed" -> old = diff.oldValue /\ new = Absent
       [] OTHER -> old = diff.oldValue /\ new = diff.newValue

-----------------------------------------------------------------------------
\* C29: under the policy 'error' a Cycle Fault is raised only when the
\* lock-step traversal actually reaches, on a path that the filter lets it
\* compare, a pair of containers of the same kind of which at least one is
\* already in its ledger; a self-reference that the traversal never enters
\* (the other side holds a scalar at that key, or the key is excluded by the
\* path filter) yields an ordinary result, the one the call yields under
\* 'ignore'.

\* The paths at which the lock-step walk, skipping the paths the filter does
\* not let it compare, meets a pair of containers of the same kind of which
\* at least one is in its ledger.
RECURSIVE RevisitPathsCompared(_, _, _, _, _, _, _)
RevisitPathsCompared(h, a, b, path, ancA, ancB, pathFilter) ==
  IF path # EmptyStr /\ ~shouldComparePath(path, pathFilter) THEN {}
  ELSE IF ~IsContainer(h, a) \/ ~IsContainer(h, b) THEN {}
  ELSE IF h[a.n].kind # h[b.n].kind THEN {}
  ELSE IF AncestorIndex(ancA, a.n) # 0 \/ AncestorIndex(ancB, b.n) # 0 THEN {path}
  ELSE IF h[a.n].kind = "arr" /\ ArrLength(h, a) # ArrLength(h, b) THEN {}
  ELSE UNION {RevisitPathsCompared(h, GetProp(h, a, key), GetProp(h, b, key),
                                   ChildPath(h, a, path, key),
                                   Append(ancA, a.n), Append(ancB, b.n), pathFilter) :
                key \in KeySet(h, a) \cap KeySet(h, b)}

\* What the operation of this state returns for the same inputs under the
\* policy 'ignore'.
ResultUnderIgnore ==
  LET o == [argOptions EXCEPT !.circularReferences = "ignore"]
  IN CASE pc = "CompareArrays" -> CompareArrays(heap, argFirst, argSecond, o)
       [] pc = "CompareValuesWithConflicts" ->
            CompareValuesWithConflicts(heap, argFirst, argSecond, argPath, o)
       [] OTHER ->
            CompareValuesWithDetailedDifferences(heap, argFirst, argSecond, argPath, o)

\* An operation was called under the policy 'error', with no filter or one
\* in exclude mode, on two different containers whose traversal meets no
\* pair of which a side is in its ledger.
C29Case ==
  /\ Called
  /\ ArraysToCompareArrays
  /\ IsContainer(heap, argFirst)
  /\ IsContainer(heap, argSecond)
  /\ argOptions.circularReferences = "error"
  /\ argOptions.pathFilter.mode # "include"
  /\ argPath = EmptyStr
  /\ argFirst # argSecond
  /\ RevisitPathsCompared(heap, argFirst, argSecond, EmptyStr, <<>>, <<>>,
                          argOptions.pathFilter) = {}

C29_FaultOnlyWhenCycleEntered ==
  C29Case => result.k # "throw" /\ result = ResultUnderIgnore

-----------------------------------------------------------------------------
\* C30: the cache discipline of Memoize: the cache only grows; a call whose
\* key is in the cache returns the stored value without invoking fn; a call
\* whose key is not in the cache invokes fn exactly once and stores what it
\* returns under the key; when fn raises, nothing is stored, the cache is
\* unchanged and the fault reaches the caller, so that a later call with the
\* same key invokes fn again.

\* A step that is one call of a memoized operation.
MemoizedCallStep == pc = "session" /\ pc' # "session"

\* The cache of the operation called, in the cache record c.
StoreOfCall(c) ==
  CASE pc' = "MemoizedCompareArrays" -> c.arrays
    [] pc' = "MemoizedCompareValuesWithConflicts" -> c.conflicts
    [] OTHER -> c.detailed

\* The cache record c with s as the cache of the operation called.
WithStoreOfCall(c, s) ==
  CASE pc' = "MemoizedCompareArrays" -> [c EXCEPT !.arrays = s]
    [] pc' = "MemoizedCompareValuesWithConflicts" -> [c EXCEPT !.conflicts = s]
    [] OTHER -> [c EXCEPT !.detailed = s]

\* The key of the call.
KeyOfCall ==
  IF pc' = "MemoizedCompareArrays"
  THEN DefaultKey(heap, argFirst, argSecond, argOptions)
  ELSE compareValuesWithConflictsKeyFn(heap, argFirst, argSecond, argPath, argOptions)

\* What fn returns or throws for the arguments of the call.
FnOfCall ==
  CASE pc' = "MemoizedCompareArrays" ->
         CompareArrays(heap, argFirst, argSecond, argOptions)
    [] pc' = "MemoizedCompareValuesWithConflicts" ->
         CompareValuesWithConflicts(heap, argFirst, argSecond, argPath, argOptions)
    [] OTHER ->
         CompareValuesWithDetailedDifferences(heap, argFirst, argSecond, argPath,
                                              argOptions)

CacheDiscipline ==
  /\ cache.arrays \subseteq cache'.arrays
  /\ cache.conflicts \subseteq cache'.conflicts
  /\ cache.detailed \subseteq cache'.detailed
  /\ (MemoizedCallStep /\ KeyOfCall.ok) =>
       IF CacheHas(StoreOfCall(cache), KeyOfCall.s)
       THEN /\ result' = CacheGet(StoreOfCall(cache), KeyOfCall.s)
            /\ fnCalls' = fnCalls
            /\ cache' = cache
       ELSE /\ Len(fnCalls') = Len(fnCalls) + 1
            /\ result' = FnOfCall
            /\ IF Returned(FnOfCall)
               THEN cache' = WithStoreOfCall(cache,
                               StoreOfCall(cache)
                                 \cup {[key |-> KeyOfCall.s, value |-> FnOfCall]})
               ELSE cache' = cache

C30_CacheDiscipline == [][CacheDiscipline]_vars

\* Two calls of one memoized operation with the same key both invoked fn:
\* the first raised a Cycle Fault, nothing was stored, and the second
\* invoked fn again and raised the fault again.
C30_Witness ==
  /\ calls = 2
  /\ Len(fnCalls) = 2
  /\ fnCalls[1] = fnCalls[2]
  /\ cache = EmptyCache
  /\ result.k = "throw"

=============================================================================
